---- MODULE Spec2Model ----
(***************************************************************************)
(* A model of the local MapReduce simulator (src/src/local_mapreduce.py)   *)
(* and of the transforms it runs as subprocesses.                          *)
(*                                                                         *)
(* Text is modelled as it is in the program: a string is a sequence of     *)
(* code points, a stream is a sequence of lines, and str.strip, str.split, *)
(* sorted and the f-string formatting are operators that compute what the  *)
(* Python built-ins compute.                                               *)
(***************************************************************************)
EXTENDS Integers, Sequences, FiniteSets, TLC

\* ------------------------------------------------------------------------
\* Code points of the characters the transforms test for or print.
TAB == 9
NL == 10
SPACE == 32
COMMA == 44
DIGIT0 == 48
COLON == 58
TAGA == 65
TAGP == 80
USCORE == 95
MINUS == 45

\* The code points of the characters the inputs below are written with:
\* <<L.u, USCORE, DIGIT0 + 1>> is "u_1".
L ==
  [u |-> 117, x |-> 120, y |-> 121, c |-> 99, d |-> 100, t |-> 116,
   A |-> 65, bang |-> 33]

\* ------------------------------------------------------------------------
\* Bounds of the model.
MaxActivity == 2
MaxProfile == 1
MaxInput == 3
MaxHot == 46
MaxCold == 2
MaxCleansing == 3
MaxPostCount == 10002
MaxWorkflowInput == 2
MaxRuns == 2

\* ------------------------------------------------------------------------
\* Python's None, distinct from every string.
None == <<-1>>

\* str.isspace for one character: the whitespace str.strip() removes.
IsSpace(c) == c \in {TAB, NL, SPACE}

AllSpace(s) == \A i \in 1..Len(s) : IsSpace(s[i])

\* s.lstrip(), s.rstrip(), s.strip()
LStrip(s) ==
  IF AllSpace(s) THEN <<>>
  ELSE LET i == CHOOSE j \in 1..Len(s) :
                  /\ ~IsSpace(s[j])
                  /\ \A k \in 1..(j - 1) : IsSpace(s[k])
       IN SubSeq(s, i, Len(s))

RStrip(s) ==
  IF AllSpace(s) THEN <<>>
  ELSE LET i == CHOOSE j \in 1..Len(s) :
                  /\ ~IsSpace(s[j])
                  /\ \A k \in (j + 1)..Len(s) : IsSpace(s[k])
       IN SubSeq(s, 1, i)

Strip(s) == RStrip(LStrip(s))

\* c in s
Contains(s, c) == \E i \in 1..Len(s) : s[i] = c

\* s.find(c), 1-based; 0 when c does not occur
Find(s, c) ==
  IF Contains(s, c)
  THEN CHOOSE i \in 1..Len(s) : s[i] = c /\ \A k \in 1..(i - 1) : s[k] # c
  ELSE 0

\* s.split(c, 1): one part when c does not occur, else the text before the
\* first c and all the text after it
SplitOnce(s, c) ==
  IF Find(s, c) = 0 THEN <<s>>
  ELSE <<SubSeq(s, 1, Find(s, c) - 1), SubSeq(s, Find(s, c) + 1, Len(s))>>

\* s.split(c): every part, empty parts kept; "".split(c) is [""]
RECURSIVE Split(_, _)
Split(s, c) ==
  IF Find(s, c) = 0 THEN <<s>>
  ELSE <<SubSeq(s, 1, Find(s, c) - 1)>>
         \o Split(SubSeq(s, Find(s, c) + 1, Len(s)), c)

\* a < b for str: the code points at the first place where they differ
\* decide; with no such place the shorter string (a proper prefix) is less
StrLess(a, b) ==
  LET n == IF Len(a) < Len(b) THEN Len(a) ELSE Len(b)
      diff == { i \in 1..n : a[i] # b[i] }
  IN IF diff = {} THEN Len(a) < Len(b)
     ELSE LET i == CHOOSE j \in diff : \A k \in diff : j <= k
          IN a[i] < b[i]

\* sorted(lines). list.sort is stable: an element's place is the number of
\* elements less than it, plus the number of equal elements before it.
Sorted(lines) ==
  LET n == Len(lines)
      rank == [i \in 1..n |->
                 Cardinality({ j \in 1..n :
                     \/ StrLess(lines[j], lines[i])
                     \/ (lines[j] = lines[i] /\ j < i) }) + 1]
  IN [p \in 1..n |-> lines[CHOOSE i \in 1..n : rank[i] = p]]

\* str(n) for n >= 0, and the digit of a one-digit number
RECURSIVE Str(_)
Str(n) ==
  IF n < 10 THEN <<DIGIT0 + n>>
  ELSE Str(n \div 10) \o <<DIGIT0 + (n % 10)>>

\* The lines of output.strip().split('\n'), for an output printed line by
\* line (every line followed by '\n'). Stripping the text removes the
\* whitespace-only lines at both ends with their line ends, the leading
\* whitespace of the first line left and the trailing whitespace of the last;
\* "".split('\n') is [""].
RECURSIVE LStripLines(_)
LStripLines(ls) ==
  IF ls = <<>> THEN <<>>
  ELSE IF AllSpace(Head(ls)) THEN LStripLines(Tail(ls))
  ELSE <<LStrip(Head(ls))>> \o Tail(ls)

RECURSIVE RStripLines(_)
RStripLines(ls) ==
  IF ls = <<>> THEN <<>>
  ELSE IF AllSpace(ls[Len(ls)]) THEN RStripLines(SubSeq(ls, 1, Len(ls) - 1))
  ELSE SubSeq(ls, 1, Len(ls) - 1) \o <<RStrip(ls[Len(ls)])>>

StripSplitLines(ls) ==
  IF RStripLines(LStripLines(ls)) = <<>> THEN << <<>> >>
  ELSE RStripLines(LStripLines(ls))

\* not output.strip(): the output holds no character that is not whitespace
IsBlankOutput(ls) == RStripLines(LStripLines(ls)) = <<>>

\* s.lower(), for the ASCII letters
Lower(s) == [i \in 1..Len(s) |-> IF s[i] >= 65 /\ s[i] <= 90 THEN s[i] + 32 ELSE s[i]]

\* f"{n:05d}": at least five characters, zeros after the sign
Format05d(n) ==
  LET ZeroPad(digits, width) ==
        [i \in 1..(width - Len(digits)) |-> DIGIT0] \o digits
  IN IF n >= 0
     THEN IF Len(Str(n)) >= 5 THEN Str(n) ELSE ZeroPad(Str(n), 5)
     ELSE IF Len(Str(-n)) >= 4 THEN <<MINUS>> \o Str(-n)
          ELSE <<MINUS>> \o ZeroPad(Str(-n), 4)

\* int(s) for a string of decimal digits (the only numbers the transforms
\* print); IsInt tells whether int(s) returns or raises ValueError
IsInt(s) == Len(s) >= 1 /\ \A i \in 1..Len(s) : s[i] >= DIGIT0 /\ s[i] <= DIGIT0 + 9

RECURSIVE ParseInt(_)
ParseInt(s) ==
  IF Len(s) = 0 THEN 0
  ELSE 10 * ParseInt(SubSeq(s, 1, Len(s) - 1)) + (s[Len(s)] - DIGIT0)

\* ------------------------------------------------------------------------
\* join_activity_mapper.py, join_profile_mapper.py

NUM_SALTS == 10

\* skewed_keys = set(skewed_keys_str.split(',')) if skewed_keys_str else set()
ParseSkewedKeys(skewed_keys_str) ==
  IF skewed_keys_str = <<>> THEN {}
  ELSE { Split(skewed_keys_str, COMMA)[i] :
           i \in 1..Len(Split(skewed_keys_str, COMMA)) }

\* The salted key with the salt indices counted from 1.
SaltedKeyFromOne(user_id, i) == user_id \o <<USCORE>> \o Str(i + 1)

\* f"{user_id}_{i}"
SaltedKey(user_id, i) == user_id \o <<USCORE>> \o Str(i)

\* The records one key emits: NUM_SALTS salted copies for a skewed key (for i
\* in range(NUM_SALTS)), else the one record with the key as it is.
EmitTagged(user_id, tag, data, skewed_keys) ==
  IF user_id \in skewed_keys
  THEN [i \in 1..NUM_SALTS |->
          SaltedKey(user_id, i - 1) \o <<TAB, tag, COLON>> \o data]
  ELSE << user_id \o <<TAB, tag, COLON>> \o data >>

\* One pass of the activity mapper's loop: what it prints for one input line.
ActivityMapLine(line, skewed_keys) ==
  LET fields == SplitOnce(Strip(line), TAB)
  IN IF Len(fields) >= 2
     THEN EmitTagged(fields[1], TAGA, fields[2], skewed_keys)
     ELSE <<>>

\* One pass of the profile mapper's loop. The user id is the first field cut
\* at its first comma; the profile data is the whole line (fields[0], and
\* fields[1] put back behind a tab).
ProfileMapLine(line, skewed_keys) ==
  LET fields == SplitOnce(Strip(line), TAB)
      user_id == Split(fields[1], COMMA)[1]
      profile_data == IF Len(fields) > 1
                      THEN fields[1] \o <<TAB>> \o fields[2]
                      ELSE fields[1]
  IN EmitTagged(user_id, TAGP, profile_data, skewed_keys)

RECURSIVE JoinActivityMapper(_, _)
JoinActivityMapper(lines, skewed_keys) ==
  IF lines = <<>> THEN <<>>
  ELSE ActivityMapLine(Head(lines), skewed_keys)
         \o JoinActivityMapper(Tail(lines), skewed_keys)

RECURSIVE JoinProfileMapper(_, _)
JoinProfileMapper(lines, skewed_keys) ==
  IF lines = <<>> THEN <<>>
  ELSE ProfileMapLine(Head(lines), skewed_keys)
         \o JoinProfileMapper(Tail(lines), skewed_keys)

\* ------------------------------------------------------------------------
\* join_reducer.py

\* The key as it was read, salt and all.
KeepSalt(user_id) == user_id

\* if '_' in user_id: user_id = user_id.split('_')[0]
StripSalt(user_id) ==
  IF Contains(user_id, USCORE) THEN Split(user_id, USCORE)[1] ELSE user_id

\* The reducer's variables before the first line, with the lines printed.
JoinReducerInit ==
  [current_user |-> None, profile_data |-> None, activity_data |-> None,
   out |-> <<>>]

\* The row with the activity data before the profile data.
JoinedRowActivityFirst(st) ==
  st.current_user \o <<TAB>> \o st.activity_data \o <<TAB>> \o st.profile_data

\* f"{current_user}\t{profile_data}\t{activity_data}"
JoinedRow(st) ==
  st.current_user \o <<TAB>> \o st.profile_data \o <<TAB>> \o st.activity_data

HasBoth(st) ==
  /\ st.current_user # None
  /\ st.profile_data # None
  /\ st.activity_data # None

\* Lines 30-38: on a new user, print the previous user's row and reset.
KeyChange(st, user_id) ==
  IF user_id # st.current_user
  THEN [current_user |-> user_id, profile_data |-> None,
        activity_data |-> None,
        out |-> IF HasBoth(st) THEN Append(st.out, JoinedRow(st)) ELSE st.out]
  ELSE st

\* The store that keeps the first value of a tag under the current key.
StoreFirstTagged(st, tagged_data) ==
  IF tagged_data = <<>> THEN st
  ELSE IF tagged_data[1] = TAGP /\ st.profile_data = None
  THEN [st EXCEPT !.profile_data = SubSeq(tagged_data, 3, Len(tagged_data))]
  ELSE IF tagged_data[1] = TAGA /\ st.activity_data = None
  THEN [st EXCEPT !.activity_data = SubSeq(tagged_data, 3, Len(tagged_data))]
  ELSE st

\* Lines 40-47: tag = tagged_data[0]; data = tagged_data[2:]
StoreTagged(st, tagged_data) ==
  IF tagged_data = <<>> THEN st     \* IndexError, caught at line 49
  ELSE IF tagged_data[1] = TAGP
  THEN [st EXCEPT !.profile_data = SubSeq(tagged_data, 3, Len(tagged_data))]
  ELSE IF tagged_data[1] = TAGA
  THEN [st EXCEPT !.activity_data = SubSeq(tagged_data, 3, Len(tagged_data))]
  ELSE st

\* The pass that clears both buffers on a line without a tab.
JoinReduceLineClearing(st, line) ==
  LET parts == SplitOnce(Strip(line), TAB)
  IN IF Len(parts) # 2
     THEN [st EXCEPT !.profile_data = None, !.activity_data = None]
     ELSE StoreTagged(KeyChange(st, StripSalt(parts[1])), parts[2])

\* One pass of the reducer's loop. A line without a tab fails to unpack at
\* line 23 (ValueError), before anything is assigned.
JoinReduceLine(st, line) ==
  LET parts == SplitOnce(Strip(line), TAB)
  IN IF Len(parts) # 2 THEN st
     ELSE StoreTagged(KeyChange(st, StripSalt(parts[1])), parts[2])

\* Lines 53-55: the last user.
JoinFlush(st) ==
  IF HasBoth(st) THEN Append(st.out, JoinedRow(st)) ELSE st.out

\* ------------------------------------------------------------------------
\* action_aggregation_mapper.py, action_aggregation_reducer.py

\* 'post', 'like', 'comment', 'share'
POST == <<112, 111, 115, 116>>
LIKE == <<108, 105, 107, 101>>
COMMENT == <<99, 111, 109, 109, 101, 110, 116>>
SHARE == <<115, 104, 97, 114, 101>>
ActionTypes == {POST, LIKE, COMMENT, SHARE}

\* user_action_counts[user_id][action_type] += 1; the dict is a sequence of
\* its entries in the order they were inserted, and the defaultdict's value
\* for a new user is 0 for every action type.
CountAction(counts, user_id, action_type) ==
  IF \E i \in 1..Len(counts) : counts[i].user_id = user_id
  THEN [i \in 1..Len(counts) |->
          IF counts[i].user_id = user_id
          THEN [counts[i] EXCEPT !.counts[action_type] = @ + 1]
          ELSE counts[i]]
  ELSE Append(counts,
              [user_id |-> user_id,
               counts |-> [a \in ActionTypes |->
                            IF a = action_type THEN 1 ELSE 0]])

\* Lines 19-30: one pass of the mapper's loop.
AggregationMapLine(counts, line) ==
  LET fields == Split(Strip(line), TAB)
  IN IF Len(fields) >= 3 /\ Lower(fields[3]) \in ActionTypes
     THEN CountAction(counts, fields[1], Lower(fields[3]))
     ELSE counts

RECURSIVE AggregationMapLoop(_, _)
AggregationMapLoop(counts, lines) ==
  IF Len(lines) = 0 THEN counts
  ELSE AggregationMapLoop(AggregationMapLine(counts, Head(lines)), Tail(lines))

\* Line 40: sort_key = f"{10000 - counts['post']:05d}"
SortKey(post_count) == Format05d(10000 - post_count)

\* Lines 37-48: the record printed for one user.
AggregationRecord(e) ==
  e.user_id \o <<COMMA>> \o SortKey(e.counts[POST]) \o <<TAB>>
    \o Str(e.counts[POST]) \o <<COMMA>> \o Str(e.counts[LIKE]) \o <<COMMA>>
    \o Str(e.counts[COMMENT]) \o <<COMMA>> \o Str(e.counts[SHARE])

ActionAggregationMapper(lines) ==
  LET counts == AggregationMapLoop(<<>>, lines)
  IN [i \in 1..Len(counts) |-> AggregationRecord(counts[i])]

\* "posts:", ",likes:", ",comments:", ",shares:"
POSTS_ == <<112, 111, 115, 116, 115, 58>>
LIKES_ == <<44, 108, 105, 107, 101, 115, 58>>
COMMENTS_ == <<44, 99, 111, 109, 109, 101, 110, 116, 115, 58>>
SHARES_ == <<44, 115, 104, 97, 114, 101, 115, 58>>

\* Line 33: the reducer's output line.
ActivityLine(user_id, nums) ==
  user_id \o <<TAB>> \o POSTS_ \o Str(ParseInt(nums[1]))
    \o LIKES_ \o Str(ParseInt(nums[2]))
    \o COMMENTS_ \o Str(ParseInt(nums[3]))
    \o SHARES_ \o Str(ParseInt(nums[4]))

\* Lines 17-38: one pass of the reducer's loop. The unpacking of line 20
\* raises unless the line has exactly one tab; line 30 raises, after
\* current_user was set, unless the value is four integers.
AggregationReduceLine(st, line) ==
  LET parts == Split(Strip(line), TAB)
  IN IF Len(parts) # 2 THEN st
     ELSE LET user_id == Split(parts[1], COMMA)[1]
              nums == Split(parts[2], COMMA)
          IN IF user_id = st.current_user THEN st
             ELSE IF Len(nums) = 4 /\ \A i \in 1..4 : IsInt(nums[i])
             THEN [current_user |-> user_id,
                   out |-> Append(st.out, ActivityLine(user_id, nums))]
             ELSE [st EXCEPT !.current_user = user_id]

RECURSIVE AggregationReduceLoop(_, _)
AggregationReduceLoop(st, lines) ==
  IF Len(lines) = 0 THEN st
  ELSE AggregationReduceLoop(AggregationReduceLine(st, Head(lines)), Tail(lines))

ActionAggregationReducer(lines) ==
  AggregationReduceLoop([current_user |-> None, out |-> <<>>], lines).out

\* ------------------------------------------------------------------------
\* trending_content_mapper.py, trending_content_combiner.py,
\* trending_content_reducer.py

\* content_engagement[content_id] += n
AddEngagement(engagement, content_id, n) ==
  IF \E i \in 1..Len(engagement) : engagement[i].content_id = content_id
  THEN [i \in 1..Len(engagement) |->
          IF engagement[i].content_id = content_id
          THEN [engagement[i] EXCEPT !.engagement = @ + n]
          ELSE engagement[i]]
  ELSE Append(engagement, [content_id |-> content_id, engagement |-> n])

\* f"{content_id}\t{engagement}"
EngagementRecord(e) == e.content_id \o <<TAB>> \o Str(e.engagement)

EngagementRecords(engagement) ==
  [i \in 1..Len(engagement) |-> EngagementRecord(engagement[i])]

\* Mapper lines 19-30: likes and shares count.
TrendingMapLine(engagement, line) ==
  LET fields == Split(Strip(line), TAB)
  IN IF Len(fields) >= 4 /\ Lower(fields[3]) \in {LIKE, SHARE}
     THEN AddEngagement(engagement, fields[4], 1)
     ELSE engagement

RECURSIVE TrendingMapLoop(_, _)
TrendingMapLoop(engagement, lines) ==
  IF Len(lines) = 0 THEN engagement
  ELSE TrendingMapLoop(TrendingMapLine(engagement, Head(lines)), Tail(lines))

TrendingContentMapper(lines) == EngagementRecords(TrendingMapLoop(<<>>, lines))

\* Combiner lines 19-23 and reducer lines 25-33: a line decodes when it has
\* exactly one tab and an integer behind it.
DecodesEngagement(line) ==
  /\ Len(Split(Strip(line), TAB)) = 2
  /\ IsInt(Split(Strip(line), TAB)[2])

CombineLine(engagement, line) ==
  IF DecodesEngagement(line)
  THEN AddEngagement(engagement, Split(Strip(line), TAB)[1],
                     ParseInt(Split(Strip(line), TAB)[2]))
  ELSE engagement

RECURSIVE CombineLoop(_, _)
CombineLoop(engagement, lines) ==
  IF Len(lines) = 0 THEN engagement
  ELSE CombineLoop(CombineLine(engagement, Head(lines)), Tail(lines))

TrendingContentCombiner(lines) == EngagementRecords(CombineLoop(<<>>, lines))

\* Reducer lines 25-33: content_data, in the order read.
RECURSIVE ContentData(_)
ContentData(lines) ==
  IF Len(lines) = 0 THEN <<>>
  ELSE IF DecodesEngagement(Head(lines))
  THEN << [content_id |-> Split(Strip(Head(lines)), TAB)[1],
           engagement |-> ParseInt(Split(Strip(Head(lines)), TAB)[2])] >>
         \o ContentData(Tail(lines))
  ELSE ContentData(Tail(lines))

\* Lines 39-45: the threshold used, times 10.
ThresholdTimes10(threshold, data) ==
  LET \* The numbers of a list in ascending order.
      Ascending(nums) ==
        LET n == Len(nums)
            rank == [i \in 1..n |->
                       Cardinality({ j \in 1..n :
                           \/ nums[j] < nums[i]
                           \/ (nums[j] = nums[i] /\ j < i) }) + 1]
        IN [p \in 1..n |-> nums[CHOOSE i \in 1..n : rank[i] = p]]
      \* np.percentile(all_engagements, 90), times 10: numpy interpolates
      \* linearly between the two values around the index 0.9 * (n - 1).
      Percentile90Times10(nums) ==
        LET a == Ascending(nums)
            lo == (9 * (Len(nums) - 1)) \div 10
            frac == (9 * (Len(nums) - 1)) % 10
        IN IF frac = 0 THEN 10 * a[lo + 1]
           ELSE 10 * a[lo + 1] + frac * (a[lo + 2] - a[lo + 1])
  IN IF threshold < 0
     THEN IF Len(data) > 0
          THEN Percentile90Times10(
                 [i \in 1..Len(data) |-> data[i].engagement])
          ELSE 0
     ELSE 10 * threshold

\* Lines 50-53: if engagement >= threshold: print
TrendingContentReducer(lines, threshold) ==
  LET data == ContentData(lines)
      Trending(e) == 10 * e.engagement >= ThresholdTimes10(threshold, data)
  IN EngagementRecords(SelectSeq(data, Trending))

\* ------------------------------------------------------------------------
\* cleansing_mapper.py, cleansing_reducer.py

\* Lines 19-24: discarded_records
NoDiscarded ==
  [invalid_timestamp |-> 0, malformed_json |-> 0, missing_fields |-> 0,
   total_discarded |-> 0]

\* Lines 30-50: validate_timestamp
validate_timestamp(timestamp) ==
  LET IsDigit(c) == c >= DIGIT0 /\ c <= DIGIT0 + 9
      \* Line 27: timestamp_pattern,
      \* \d{4}-\d{2}-\d{2}T\d{2}:\d{2}:\d{2}Z?$
      MatchesTimestampPattern(ts) ==
        /\ Len(ts) \in {19, 20}
        /\ \A i \in {1, 2, 3, 4, 6, 7, 9, 10, 12, 13, 15, 16, 18, 19} :
             IsDigit(ts[i])
        /\ ts[5] = MINUS /\ ts[8] = MINUS
        /\ ts[11] = 84
        /\ ts[14] = COLON /\ ts[17] = COLON
        /\ Len(ts) = 20 => ts[20] = 90
      \* The days of a month of the proleptic Gregorian calendar.
      DaysInMonth(year, month) ==
        IF month \in {4, 6, 9, 11} THEN 30
        ELSE IF month # 2 THEN 31
        ELSE IF year % 4 = 0 /\ (year % 100 # 0 \/ year % 400 = 0) THEN 29
        ELSE 28
      \* Line 47: datetime.strptime(timestamp, '%Y-%m-%dT%H:%M:%S') does
      \* not raise.
      ParsesAsDatetime(ts) ==
        LET year == ParseInt(SubSeq(ts, 1, 4))
            month == ParseInt(SubSeq(ts, 6, 7))
            day == ParseInt(SubSeq(ts, 9, 10))
            hour == ParseInt(SubSeq(ts, 12, 13))
            minute == ParseInt(SubSeq(ts, 15, 16))
            second == ParseInt(SubSeq(ts, 18, 19))
        IN /\ year >= 1
           /\ month >= 1 /\ month <= 12
           /\ day >= 1 /\ day <= DaysInMonth(year, month)
           /\ hour <= 23 /\ minute <= 59 /\ second <= 59
  IN MatchesTimestampPattern(timestamp) /\ ParsesAsDatetime(timestamp)

\* Lines 53-67: validate_json. json.loads is modelled for the documents the
\* inputs hold: scalars, {}, [], and objects of one member with a scalar
\* value and no colon in its key; whitespace around a document is allowed.
validate_json(json_str) ==
  LET \* a number without fraction or exponent: -?(0|[1-9][0-9]*)
      IsJsonInteger(s) ==
        LET digits == IF Len(s) > 0 /\ s[1] = MINUS THEN Tail(s) ELSE s
        IN /\ IsInt(digits)
           /\ Len(digits) > 1 => digits[1] # DIGIT0
      \* a string without escapes: a quote, characters, a quote
      IsJsonString(s) ==
        /\ Len(s) >= 2
        /\ s[1] = 34 /\ s[Len(s)] = 34
        /\ \A i \in 2..(Len(s) - 1) : s[i] >= 32 /\ s[i] # 34 /\ s[i] # 92
      \* true, false, null
      IsJsonLiteral(s) ==
        s \in { <<116, 114, 117, 101>>, <<102, 97, 108, 115, 101>>,
                <<110, 117, 108, 108>> }
      IsJsonScalar(s) ==
        IsJsonInteger(s) \/ IsJsonString(s) \/ IsJsonLiteral(s)
      \* an object with one member whose value is a scalar: {"key":value}
      IsJsonMember(s) ==
        /\ Len(s) >= 2 /\ s[1] = 123 /\ s[Len(s)] = 125
        /\ LET inner == SubSeq(s, 2, Len(s) - 1)
           IN /\ Contains(inner, COLON)
              /\ IsJsonString(Strip(SplitOnce(inner, COLON)[1]))
              /\ IsJsonScalar(Strip(SplitOnce(inner, COLON)[2]))
      doc == Strip(json_str)
  IN \/ IsJsonScalar(doc)
     \/ doc \in { <<123, 125>>, <<91, 93>> }
     \/ IsJsonMember(doc)

\* Line 64: json.loads raises an error that is no JSONDecodeError, which
\* validate_json does not catch: the ValueError of int() for an integer of
\* more than 4300 digits (sys.int_max_str_digits).
JsonLoadsRaises(json_str) ==
  LET doc == Strip(json_str)
      digits == IF Len(doc) > 0 /\ doc[1] = MINUS THEN Tail(doc) ELSE doc
  IN IsInt(digits) /\ Len(digits) > 4300

\* The counters with one of them incremented and total_discarded forgotten.
DiscardWithoutTotal(discarded, counter_name) ==
  [discarded EXCEPT ![counter_name] = @ + 1]

\* Lines 78-79, 86-87, 92-93: a counter and total_discarded incremented.
Discard(discarded, counter_name) ==
  [discarded EXCEPT ![counter_name] = @ + 1,
                    !.total_discarded = @ + 1]

\* Line 97: the record printed for a valid line.
CleansedRecord(fields) ==
  fields[2] \o <<TAB>> \o fields[1] \o <<TAB>> \o fields[3] \o <<TAB>>
    \o fields[4] \o <<TAB>> \o fields[5]

\* Lines 71-102: one pass of the mapper's loop, on the counters and the
\* lines printed. An error that validate_json lets through is caught at
\* line 99, where total_discarded alone is incremented.
CleansingMapLine(st, line) ==
  LET fields == Split(Strip(line), TAB)
  IN IF Len(fields) < 5
     THEN [st EXCEPT !.discarded = Discard(@, "missing_fields")]
     ELSE IF ~validate_timestamp(fields[1])
     THEN [st EXCEPT !.discarded = Discard(@, "invalid_timestamp")]
     ELSE IF JsonLoadsRaises(fields[5])
     THEN [st EXCEPT !.discarded.total_discarded = @ + 1]
     ELSE IF ~validate_json(fields[5])
     THEN [st EXCEPT !.discarded = Discard(@, "malformed_json")]
     ELSE [st EXCEPT !.out = Append(@, CleansedRecord(fields))]

RECURSIVE CleansingMapLoop(_, _)
CleansingMapLoop(st, lines) ==
  IF Len(lines) = 0 THEN st
  ELSE CleansingMapLoop(CleansingMapLine(st, Head(lines)), Tail(lines))

\* The lines the cleansing mapper prints.
CleansingMapper(lines) ==
  CleansingMapLoop([discarded |-> NoDiscarded, out |-> <<>>], lines).out

\* cleansing_reducer.py lines 15-17: print(line.strip())
CleansingReducer(lines) == [i \in 1..Len(lines) |-> Strip(lines[i])]

\* ------------------------------------------------------------------------
\* The state.

VARIABLES
  \* run_join_job (local_mapreduce.py lines 128-214)
  activity_input,           \* the lines of the activity input file
  profile_input,            \* the lines of the profile input file
  skewed_keys_str,          \* env['skewed.keys']
  activity_mapper_output,   \* the lines the activity mapper printed
  profile_mapper_output,    \* the lines the profile mapper printed
  join_sorted_lines,        \* sorted_lines
  join_reducer,             \* the join reducer's variables and printed lines
  join_reducer_pos,         \* the line of its input the reducer reads next
  join_reducer_output,      \* reducer_output: what the reducer had printed
  joined_data_output,       \* the output file: [exists, lines]
  join_stages,              \* the subprocesses run so far: <<name, returncode>>
  join_pc,                  \* where run_join_job is
  join_returned             \* what run_join_job returned: "none" until it does

joinVars ==
  <<activity_input, profile_input, skewed_keys_str, activity_mapper_output,
    profile_mapper_output, join_sorted_lines, join_reducer, join_reducer_pos,
    join_reducer_output, joined_data_output, join_stages, join_pc,
    join_returned>>

VARIABLES
  \* run_map_reduce_job (local_mapreduce.py lines 15-126)
  job,                      \* which mapper, combiner and reducer were passed
  input_lines,              \* the lines of the input file
  TRENDING_THRESHOLD,       \* env['TRENDING_THRESHOLD'], as a number
  mapper_output,            \* the lines the mapper (then the combiner) printed
  sorted_lines,             \* sorted_lines
  reducer_output,           \* the lines the reducer printed
  output_file,              \* the file at output_path: [exists, lines]
  stages,                   \* the subprocesses run so far: <<name, returncode>>
  pc,                       \* where run_map_reduce_job is
  returned                  \* what it returned: "none" until it does

mrVars ==
  <<job, input_lines, TRENDING_THRESHOLD, mapper_output, sorted_lines,
    reducer_output, output_file, stages, pc, returned>>

VARIABLES
  \* analyze_key_distribution (skew_detection.py lines 22-96)
  skew_threshold_factor,    \* the parameter, as <<numerator, denominator>>
  lines_read,               \* how many times each line was read so far
  key_counter,              \* the Counter: its entries in insertion order
  total_records,            \* total_records
  analysis,                 \* the dictionary returned; None until it is
  skew_pc                   \* where analyze_key_distribution is

skewVars ==
  <<skew_threshold_factor, lines_read, key_counter, total_records, analysis,
    skew_pc>>

VARIABLES
  \* cleansing_mapper.py (lines 19-106)
  cleansing_input,          \* the lines of sys.stdin
  cleansing_pos,            \* how many of them the loop has read
  discarded_records,        \* discarded_records
  cleansing_stdout,         \* the lines printed on sys.stdout
  cleansing_stderr,         \* the counters written on sys.stderr at the end
  cleansing_pc              \* where the mapper is

cleansingVars ==
  <<cleansing_input, cleansing_pos, discarded_records, cleansing_stdout,
    cleansing_stderr, cleansing_pc>>

VARIABLES
  \* action_aggregation_mapper.py, the emit loop (lines 37-48)
  post_counts,              \* counts['post'] of the users, in emit order
  sort_keys,                \* the sort_key computed for each user so far
  emit_pc                   \* where the emit loop is

emitVars == <<post_counts, sort_keys, emit_pc>>

VARIABLES
  \* main with --job all (local_mapreduce.py lines 253-389)
  input_dir,                \* the files social_media_logs and user_profiles
  output_dir,               \* the five output files
  success,                  \* success
  jobs_started,             \* the jobs started so far: [name, failed]
  main_pc,                  \* where main is: the job it comes to next
  exit_status               \* the status the process exits with; -1 before

mainVars ==
  <<input_dir, output_dir, success, jobs_started, main_pc, exit_status>>

VARIABLES
  \* run_map_reduce_job on a directory (local_mapreduce.py lines 30-46)
  dir_entries,              \* the directory at input_path: name -> entry
  out_entries,              \* the directory of output_path, if it is another
  output_in_input_dir,      \* whether output_path lies in the input directory
  mapper_stdin              \* the text each run fed to the mapper

dirVars == <<dir_entries, out_entries, output_in_input_dir, mapper_stdin>>

vars ==
  <<joinVars, mrVars, skewVars, cleansingVars, emitVars, mainVars, dirVars>>

\* A file that was not written, and a file holding the lines given.
NoFile == [exists |-> FALSE, lines |-> <<>>]
FileOf(ls) == [exists |-> TRUE, lines |-> ls]

\* The sequences over S of length at most n.
SeqsUpTo(S, n) == UNION { [1..k -> S] : k \in 0..n }

\* The exit statuses of a subprocess: 0, or 1 for a transform that died (a
\* script that cannot start, an import that fails, an error outside the try
\* of its loop). A transform that died at its start printed nothing.
ExitStatuses == {0, 1}

\* What a transform reads from '\n'.join(lines): a last piece that is empty
\* is no line (local_mapreduce.py lines 112-113 and 198-201).
StdinLines(lines) ==
  IF Len(lines) > 0 /\ lines[Len(lines)] = <<>>
  THEN SubSeq(lines, 1, Len(lines) - 1)
  ELSE lines

\* The Counter with no key.
EmptyCounter == [k \in {} |-> 0]

\* The functions that are not called.
JoinIdle ==
  /\ activity_input = <<>>
  /\ profile_input = <<>>
  /\ skewed_keys_str = <<>>
  /\ activity_mapper_output = <<>>
  /\ profile_mapper_output = <<>>
  /\ join_sorted_lines = <<>>
  /\ join_reducer = JoinReducerInit
  /\ join_reducer_pos = 0
  /\ join_reducer_output = <<>>
  /\ joined_data_output = NoFile
  /\ join_stages = <<>>
  /\ join_pc = "idle"
  /\ join_returned = "none"

MRIdle ==
  /\ job = "none"
  /\ input_lines = <<>>
  /\ TRENDING_THRESHOLD = -1
  /\ mapper_output = <<>>
  /\ sorted_lines = <<>>
  /\ reducer_output = <<>>
  /\ output_file = NoFile
  /\ stages = <<>>
  /\ pc = "idle"
  /\ returned = "none"

SkewIdle ==
  /\ skew_threshold_factor = <<1, 100>>
  /\ lines_read = <<>>
  /\ key_counter = EmptyCounter
  /\ total_records = 0
  /\ analysis = None
  /\ skew_pc = "idle"

CleansingIdle ==
  /\ cleansing_input = <<>>
  /\ cleansing_pos = 0
  /\ discarded_records = NoDiscarded
  /\ cleansing_stdout = <<>>
  /\ cleansing_stderr = <<>>
  /\ cleansing_pc = "idle"

EmitIdle ==
  /\ post_counts = <<>>
  /\ sort_keys = <<>>
  /\ emit_pc = "idle"

\* The output directory before any job wrote to it.
NoOutput ==
  [cleansed_data |-> NoFile, user_activity |-> NoFile,
   trending_content |-> NoFile, skew_analysis |-> NoFile,
   joined_data |-> NoFile]

MainIdle ==
  /\ input_dir = [social_media_logs |-> NoFile, user_profiles |-> NoFile]
  /\ output_dir = NoOutput
  /\ success = TRUE
  /\ jobs_started = <<>>
  /\ main_pc = "idle"
  /\ exit_status = -1

\* The directory with no entry.
NoEntries == [n \in {} |-> <<>>]

DirIdle ==
  /\ dir_entries = NoEntries
  /\ out_entries = NoEntries
  /\ output_in_input_dir = FALSE
  /\ mapper_stdin = <<>>

\* ------------------------------------------------------------------------
\* Inputs of the join job.
\* "u<TAB>x", "u<TAB>y", "uA<TAB>x", "u_1<TAB>x", and "u" (no tab: malformed)
ActivityLines ==
  { <<L.u, TAB, L.x>>, <<L.u, TAB, L.y>>, <<L.u, L.A, TAB, L.x>>,
    <<L.u, USCORE, DIGIT0 + 1, TAB, L.x>>, <<L.u>> }

\* "u,x", "u_1,x", "uA"
ProfileLines ==
  { <<L.u, COMMA, L.x>>, <<L.u, USCORE, DIGIT0 + 1, COMMA, L.x>>,
    <<L.u, L.A>> }

\* "", "u", "u_1"
SkewedKeyStrings == { <<>>, <<L.u>>, <<L.u, USCORE, DIGIT0 + 1>> }

JoinInit ==
  /\ activity_input \in SeqsUpTo(ActivityLines, MaxActivity)
  /\ profile_input \in SeqsUpTo(ProfileLines, MaxProfile)
  /\ skewed_keys_str \in SkewedKeyStrings
  /\ activity_mapper_output = <<>>
  /\ profile_mapper_output = <<>>
  /\ join_sorted_lines = <<>>
  /\ join_reducer = JoinReducerInit
  /\ join_reducer_pos = 0
  /\ join_reducer_output = <<>>
  /\ joined_data_output = NoFile
  /\ join_stages = <<>>
  /\ join_pc = "start"
  /\ join_returned = "none"
  /\ MRIdle
  /\ SkewIdle
  /\ CleansingIdle
  /\ EmitIdle
  /\ MainIdle
  /\ DirIdle

\* Lines 151-165: the activity mapper runs to its end on the whole input.
RunActivityMapper ==
  /\ join_pc = "start"
  /\ \E rc \in ExitStatuses :
       /\ activity_mapper_output' =
            IF rc = 0
            THEN JoinActivityMapper(activity_input,
                                    ParseSkewedKeys(skewed_keys_str))
            ELSE <<>>
       /\ join_stages' = Append(join_stages, <<"activity_mapper", rc>>)
  /\ join_pc' = "activity_mapped"
  /\ UNCHANGED <<activity_input, profile_input, skewed_keys_str,
                 profile_mapper_output, join_sorted_lines, join_reducer,
                 join_reducer_pos, join_reducer_output, joined_data_output,
                 join_returned>>
  /\ UNCHANGED <<mrVars, skewVars, cleansingVars, emitVars, mainVars, dirVars>>

\* Lines 167-181: the profile mapper.
RunProfileMapper ==
  /\ join_pc = "activity_mapped"
  /\ \E rc \in ExitStatuses :
       /\ profile_mapper_output' =
            IF rc = 0
            THEN JoinProfileMapper(profile_input,
                                   ParseSkewedKeys(skewed_keys_str))
            ELSE <<>>
       /\ join_stages' = Append(join_stages, <<"profile_mapper", rc>>)
  /\ join_pc' = "profile_mapped"
  /\ UNCHANGED <<activity_input, profile_input, skewed_keys_str,
                 activity_mapper_output, join_sorted_lines, join_reducer,
                 join_reducer_pos, join_reducer_output, joined_data_output,
                 join_returned>>
  /\ UNCHANGED <<mrVars, skewVars, cleansingVars, emitVars, mainVars, dirVars>>

\* The lines of the first output alone.
FirstOutputOnly(activity_output, profile_output) ==
  StripSplitLines(activity_output)

\* Line 184 and the split of line 188: the lines of
\* activity_mapper_output.strip() + '\n' + profile_mapper_output.strip()
CombinedLines(activity_output, profile_output) ==
  StripSplitLines(activity_output) \o StripSplitLines(profile_output)

\* The lines in reverse order.
ReversedLines(lines) == [i \in 1..Len(lines) |-> lines[Len(lines) + 1 - i]]

\* The lines as they are.
UnsortedLines(lines) == lines

\* Lines 77, 96 and 188: sorted(... .split('\n'))
SortLines(lines) == Sorted(lines)

SortCombined ==
  /\ join_pc = "profile_mapped"
  /\ join_sorted_lines' =
       SortLines(CombinedLines(activity_mapper_output, profile_mapper_output))
  /\ join_pc' = "sorted"
  /\ UNCHANGED <<activity_input, profile_input, skewed_keys_str,
                 activity_mapper_output, profile_mapper_output, join_reducer,
                 join_reducer_pos, join_reducer_output, joined_data_output,
                 join_stages, join_returned>>
  /\ UNCHANGED <<mrVars, skewVars, cleansingVars, emitVars, mainVars, dirVars>>

\* Lines 190-199: the join reducer is started on '\n'.join(sorted_lines). A
\* reducer that cannot start exits with status 1 and has printed nothing.
StartJoinReducer ==
  /\ join_pc = "sorted"
  /\ \E rc \in ExitStatuses :
       IF rc = 0
       THEN /\ join_pc' = "reducing"
            /\ join_reducer_pos' = 1
            /\ UNCHANGED <<join_stages, join_reducer_output>>
       ELSE /\ join_pc' = "reduced"
            /\ join_stages' = Append(join_stages, <<"reducer", rc>>)
            /\ join_reducer_output' = <<>>
            /\ UNCHANGED join_reducer_pos
  /\ UNCHANGED <<activity_input, profile_input, skewed_keys_str,
                 activity_mapper_output, profile_mapper_output,
                 join_sorted_lines, join_reducer, joined_data_output,
                 join_returned>>
  /\ UNCHANGED <<mrVars, skewVars, cleansingVars, emitVars, mainVars, dirVars>>

\* join_reducer.py lines 20-51: one pass of for line in sys.stdin.
JoinReducerReadLine ==
  /\ join_pc = "reducing"
  /\ join_reducer_pos <= Len(StdinLines(join_sorted_lines))
  /\ join_reducer' =
       JoinReduceLine(join_reducer,
                      StdinLines(join_sorted_lines)[join_reducer_pos])
  /\ join_reducer_pos' = join_reducer_pos + 1
  /\ UNCHANGED <<activity_input, profile_input, skewed_keys_str,
                 activity_mapper_output, profile_mapper_output,
                 join_sorted_lines, join_reducer_output, joined_data_output,
                 join_stages, join_pc, join_returned>>
  /\ UNCHANGED <<mrVars, skewVars, cleansingVars, emitVars, mainVars, dirVars>>

\* join_reducer.py lines 53-55 and local_mapreduce.py line 201: the input is
\* at its end, the reducer prints the last user's row and exits;
\* communicate() returns what it printed.
JoinReducerExit ==
  /\ join_pc = "reducing"
  /\ join_reducer_pos > Len(StdinLines(join_sorted_lines))
  /\ join_reducer' = [join_reducer EXCEPT !.out = JoinFlush(join_reducer)]
  /\ join_reducer_output' = JoinFlush(join_reducer)
  /\ join_stages' = Append(join_stages, <<"reducer", 0>>)
  /\ join_pc' = "reduced"
  /\ UNCHANGED <<activity_input, profile_input, skewed_keys_str,
                 activity_mapper_output, profile_mapper_output,
                 join_sorted_lines, join_reducer_pos, joined_data_output,
                 join_returned>>
  /\ UNCHANGED <<mrVars, skewVars, cleansingVars, emitVars, mainVars, dirVars>>

\* Lines 206-214: the output file is written and True returned, whatever the
\* exit statuses were (no returncode is read).
WriteJoinOutput ==
  /\ join_pc = "reduced"
  /\ joined_data_output' = FileOf(join_reducer_output)
  /\ join_returned' = "True"
  /\ join_pc' = "done"
  /\ UNCHANGED <<activity_input, profile_input, skewed_keys_str,
                 activity_mapper_output, profile_mapper_output,
                 join_sorted_lines, join_reducer, join_reducer_pos,
                 join_reducer_output, join_stages>>
  /\ UNCHANGED <<mrVars, skewVars, cleansingVars, emitVars, mainVars, dirVars>>

JoinNext ==
  \/ RunActivityMapper
  \/ RunProfileMapper
  \/ SortCombined
  \/ StartJoinReducer
  \/ JoinReducerReadLine
  \/ JoinReducerExit
  \/ WriteJoinOutput

SpecJoin == JoinInit /\ [][JoinNext]_vars

\* ------------------------------------------------------------------------
\* The sort and the reducer of the join on the output of two mappers that
\* were started with different settings: each mapper is a script that reads
\* 'skewed.keys' from its own environment (join_activity_mapper.py line 17,
\* join_profile_mapper.py line 17). One of them ran with skewed_keys_str, the
\* other with no setting, and both exited with status 0.
OneSideSaltedInit ==
  /\ activity_input \in SeqsUpTo(ActivityLines, MaxActivity)
  /\ profile_input \in SeqsUpTo(ProfileLines, MaxProfile)
  /\ skewed_keys_str \in SkewedKeyStrings
  /\ \E salted \in {"activity", "profile"} :
       /\ activity_mapper_output =
            JoinActivityMapper(activity_input,
              IF salted = "activity" THEN ParseSkewedKeys(skewed_keys_str)
              ELSE {})
       /\ profile_mapper_output =
            JoinProfileMapper(profile_input,
              IF salted = "profile" THEN ParseSkewedKeys(skewed_keys_str)
              ELSE {})
  /\ join_sorted_lines = <<>>
  /\ join_reducer = JoinReducerInit
  /\ join_reducer_pos = 0
  /\ join_reducer_output = <<>>
  /\ joined_data_output = NoFile
  /\ join_stages = <<<<"activity_mapper", 0>>, <<"profile_mapper", 0>>>>
  /\ join_pc = "profile_mapped"
  /\ join_returned = "none"
  /\ MRIdle
  /\ SkewIdle
  /\ CleansingIdle
  /\ EmitIdle
  /\ MainIdle
  /\ DirIdle

\* local_mapreduce.py lines 183-214: the rest of the join job.
SortReduceNext ==
  \/ SortCombined
  \/ StartJoinReducer
  \/ JoinReducerReadLine
  \/ JoinReducerExit
  \/ WriteJoinOutput

SpecOneSideSalted == OneSideSaltedInit /\ [][SortReduceNext]_vars

\* ------------------------------------------------------------------------
\* run_map_reduce_job (local_mapreduce.py lines 15-126), as main() calls it
\* for the aggregation job (lines 333-340: no combiner, no env) and for the
\* trending job (lines 342-353: combiner, env TRENDING_THRESHOLD).

\* "u<TAB>t<TAB>post<TAB>c", "u<TAB>t<TAB>like<TAB>c",
\* "uA<TAB>t<TAB>LIKE<TAB>c!", "u,x<TAB>t<TAB>share<TAB>c,x",
\* "u<TAB>t<TAB>view<TAB>c" (an action that is not counted), "u<TAB>t"
\* (too few fields), and "u<TAB>t<TAB>like<TAB> c" (a content id with a
\* space in front)
InputLines ==
  { <<L.u, TAB, L.t, TAB>> \o POST \o <<TAB, L.c>>,
    <<L.u, TAB, L.t, TAB>> \o LIKE \o <<TAB, L.c>>,
    <<L.u, L.A, TAB, L.t, TAB, 76, 73, 75, 69, TAB, L.c, L.bang>>,
    <<L.u, COMMA, L.x, TAB, L.t, TAB>> \o SHARE
      \o <<TAB, L.c, COMMA, L.x>>,
    <<L.u, TAB, L.t, TAB, 118, 105, 101, 119, TAB, L.c>>,
    <<L.u, TAB, L.t>>,
    <<L.u, TAB, L.t, TAB>> \o LIKE \o <<TAB, SPACE, L.c>> }

Thresholds == {-1, 0, 2}

HasCombiner == job = "trending"

Mapper(lines) ==
  IF job = "aggregation" THEN ActionAggregationMapper(lines)
  ELSE TrendingContentMapper(lines)

Reducer(lines) ==
  IF job = "aggregation" THEN ActionAggregationReducer(lines)
  ELSE TrendingContentReducer(lines, TRENDING_THRESHOLD)

MRInit ==
  /\ job \in {"aggregation", "trending"}
  /\ input_lines \in SeqsUpTo(InputLines, MaxInput)
  /\ TRENDING_THRESHOLD \in IF job = "trending" THEN Thresholds ELSE {-1}
  /\ mapper_output = <<>>
  /\ sorted_lines = <<>>
  /\ reducer_output = <<>>
  /\ output_file = NoFile
  /\ stages = <<>>
  /\ pc = "start"
  /\ returned = "none"
  /\ JoinIdle
  /\ SkewIdle
  /\ CleansingIdle
  /\ EmitIdle
  /\ MainIdle
  /\ DirIdle

\* Lines 48-66: the mapper runs on the input file.
RunMapper ==
  /\ pc = "start"
  /\ \E rc \in ExitStatuses :
       /\ mapper_output' = IF rc = 0 THEN Mapper(input_lines) ELSE <<>>
       /\ stages' = Append(stages, <<"map", rc>>)
  /\ pc' = "mapped"
  /\ UNCHANGED <<job, input_lines, TRENDING_THRESHOLD, sorted_lines,
                 reducer_output, output_file, returned>>
  /\ UNCHANGED <<joinVars, skewVars, cleansingVars, emitVars, mainVars, dirVars>>

\* An empty mapped stream treated as a failure: nothing written, False.
EmptyIsFailure ==
  /\ pc = "mapped"
  /\ IsBlankOutput(mapper_output)
  /\ returned' = "False"
  /\ pc' = "done"
  /\ UNCHANGED <<job, input_lines, TRENDING_THRESHOLD, mapper_output,
                 sorted_lines, reducer_output, output_file, stages>>
  /\ UNCHANGED <<joinVars, skewVars, cleansingVars, emitVars, mainVars, dirVars>>

\* Lines 68-73: if not mapper_output.strip(): write "" and return True.
EmptyShortCircuit ==
  /\ pc = "mapped"
  /\ IsBlankOutput(mapper_output)
  /\ output_file' = FileOf(<<>>)
  /\ returned' = "True"
  /\ pc' = "done"
  /\ UNCHANGED <<job, input_lines, TRENDING_THRESHOLD, mapper_output,
                 sorted_lines, reducer_output, stages>>
  /\ UNCHANGED <<joinVars, skewVars, cleansingVars, emitVars, mainVars, dirVars>>

\* Lines 75-77: sorted_lines = sorted(mapper_output.strip().split('\n'))
SortMapped ==
  /\ pc = "mapped"
  /\ ~IsBlankOutput(mapper_output)
  /\ sorted_lines' = SortLines(StripSplitLines(mapper_output))
  /\ pc' = "sorted"
  /\ UNCHANGED <<job, input_lines, TRENDING_THRESHOLD, mapper_output,
                 reducer_output, output_file, stages, returned>>
  /\ UNCHANGED <<joinVars, skewVars, cleansingVars, emitVars, mainVars, dirVars>>

\* Lines 79-96: the combiner runs on the sorted lines, its output replaces
\* mapper_output and is sorted again.
RunCombiner ==
  /\ pc = "sorted"
  /\ HasCombiner
  /\ \E rc \in ExitStatuses :
       LET combined == IF rc = 0
                       THEN TrendingContentCombiner(StdinLines(sorted_lines))
                       ELSE <<>>
       IN /\ mapper_output' = combined
          /\ sorted_lines' = SortLines(StripSplitLines(combined))
          /\ stages' = Append(stages, <<"combine", rc>>)
  /\ pc' = "combined"
  /\ UNCHANGED <<job, input_lines, TRENDING_THRESHOLD, reducer_output,
                 output_file, returned>>
  /\ UNCHANGED <<joinVars, skewVars, cleansingVars, emitVars, mainVars, dirVars>>

\* The reducer started on the mapper's output as it is, before any sort.
RunReducerBeforeSort ==
  /\ pc = "mapped"
  /\ ~IsBlankOutput(mapper_output)
  /\ \E rc \in ExitStatuses :
       /\ reducer_output' =
            IF rc = 0 THEN Reducer(StripSplitLines(mapper_output)) ELSE <<>>
       /\ stages' = Append(stages, <<"reduce", rc>>)
  /\ pc' = "reduced"
  /\ UNCHANGED <<job, input_lines, TRENDING_THRESHOLD, mapper_output,
                 sorted_lines, output_file, returned>>
  /\ UNCHANGED <<joinVars, skewVars, cleansingVars, emitVars, mainVars, dirVars>>

\* Lines 98-116: the reducer runs on the sorted lines.
RunReducer ==
  /\ \/ pc = "sorted" /\ ~HasCombiner
     \/ pc = "combined"
  /\ \E rc \in ExitStatuses :
       /\ reducer_output' =
            IF rc = 0 THEN Reducer(StdinLines(sorted_lines)) ELSE <<>>
       /\ stages' = Append(stages, <<"reduce", rc>>)
  /\ pc' = "reduced"
  /\ UNCHANGED <<job, input_lines, TRENDING_THRESHOLD, mapper_output,
                 sorted_lines, output_file, returned>>
  /\ UNCHANGED <<joinVars, skewVars, cleansingVars, emitVars, mainVars, dirVars>>

\* Lines 118-126: the output file is written and True returned, whatever the
\* exit statuses were (no returncode is read).
WriteOutput ==
  /\ pc = "reduced"
  /\ output_file' = FileOf(reducer_output)
  /\ returned' = "True"
  /\ pc' = "done"
  /\ UNCHANGED <<job, input_lines, TRENDING_THRESHOLD, mapper_output,
                 sorted_lines, reducer_output, stages>>
  /\ UNCHANGED <<joinVars, skewVars, cleansingVars, emitVars, mainVars, dirVars>>

MRNext ==
  \/ RunMapper
  \/ EmptyShortCircuit
  \/ SortMapped
  \/ RunCombiner
  \/ RunReducer
  \/ WriteOutput

SpecMR == MRInit /\ [][MRNext]_vars

\* ------------------------------------------------------------------------
\* analyze_key_distribution (skew_detection.py lines 22-96). The fractions
\* are exact: <<n, d>> is n / d. The floats of the code decide count >
\* skew_threshold as the fractions do for every total up to 69 records, 8
\* keys and the factors below.

\* "u<TAB>x" (the hot key), "x,1<TAB>y" (a composite key), "x<TAB>y",
\* " y<TAB>x " (whitespace around), "c" (no tab), "d,<TAB>x", and "" (a blank
\* line: the key is the empty string)
HotLine == <<L.u, TAB, L.x>>
SkewLines ==
  { HotLine, <<L.x, COMMA, DIGIT0 + 1, TAB, L.y>>, <<L.x, TAB, L.y>>,
    <<SPACE, L.y, TAB, L.x, SPACE>>, <<L.c>>, <<L.d, COMMA, TAB, L.x>>,
    <<>> }

\* skew_threshold_factor: the default 0.01 of line 22, and 0.9
ThresholdFactors == { <<1, 100>>, <<9, 10>> }

\* Lines 40-44: the key counted for a line.
CountedKey(line) ==
  LET key == Split(Strip(line), TAB)[1]
  IN IF Contains(key, COMMA) THEN Split(key, COMMA)[1] ELSE key

\* key_counter[key], 0 for a key that is not in the Counter.
CountOf(counter, key) == IF key \in DOMAIN counter THEN counter[key] ELSE 0

\* Line 46: key_counter[key] += 1
Increment(counter, key) ==
  [k \in DOMAIN counter \cup {key} |->
     IF k = key THEN CountOf(counter, k) + 1 ELSE counter[k]]

\* max(a, b) of two fractions with positive denominators.
FractionMax(a, b) == IF b[1] * a[2] > a[1] * b[2] THEN b ELSE a

\* count >= threshold, for a fraction with a positive denominator.
ReachesThreshold(count, threshold) == count * threshold[2] >= threshold[1]

\* count < threshold
FallsShort(count, threshold) == count * threshold[2] < threshold[1]

\* Line 70: count > skew_threshold
Exceeds(count, threshold) == count * threshold[2] > threshold[1]

\* The threshold with the mean inverted: unique_keys / total_records * 5.
SkewThresholdInvertedMean(factor, total, unique_keys) ==
  FractionMax(<<factor[1] * total, factor[2]>>, <<5 * unique_keys, total>>)

\* The threshold that every key exceeds.
NoSkewThreshold(factor, total, unique_keys) == <<0, 1>>

\* Lines 64-67: skew_threshold
SkewThreshold(factor, total, unique_keys) ==
  FractionMax(<<factor[1] * total, factor[2]>>, <<5 * total, unique_keys>>)

\* The statistics without the case of the empty Counter and without the
\* guard of line 61: the mean divides by unique_keys, which may be 0.
AnalysisWithoutEmptyCase(counter, total, factor) ==
  LET unique_keys == Cardinality(DOMAIN counter)
      skew_threshold == <<5 * total, unique_keys>>
  IN [total_records |-> total,
      unique_keys |-> unique_keys,
      skew_threshold |-> skew_threshold,
      skewed_keys |->
        { key \in DOMAIN counter : Exceeds(counter[key], skew_threshold) }]

\* Lines 50-96: the dictionary returned (the list skewed_keys as the set of
\* its elements; the entries that only report are left out).
Analysis(counter, total, factor) ==
  IF DOMAIN counter = {}
  THEN [total_records |-> 0, unique_keys |-> 0, skew_threshold |-> <<0, 1>>,
        skewed_keys |-> {}]
  ELSE LET unique_keys == Cardinality(DOMAIN counter)
           skew_threshold == SkewThreshold(factor, total, unique_keys)
       IN [total_records |-> total,
           unique_keys |-> unique_keys,
           skew_threshold |-> skew_threshold,
           skewed_keys |->
             { key \in DOMAIN counter : Exceeds(counter[key], skew_threshold) }]

\* How many times a line may be read: the stream is cut where the hot key has
\* MaxHot records and every other key MaxCold.
MayRead(line) ==
  CountOf(key_counter, CountedKey(line)) <
    (IF line = HotLine THEN MaxHot ELSE MaxCold)

SkewInit ==
  /\ skew_threshold_factor \in ThresholdFactors
  /\ lines_read = [l \in SkewLines |-> 0]
  /\ key_counter = EmptyCounter
  /\ total_records = 0
  /\ analysis = None
  /\ skew_pc = "reading"
  /\ JoinIdle
  /\ MRIdle
  /\ CleansingIdle
  /\ EmitIdle
  /\ MainIdle
  /\ DirIdle

\* Lines 37-48: one pass of for line in lines.
SkewReadLine ==
  /\ skew_pc = "reading"
  /\ \E line \in SkewLines :
       /\ MayRead(line)
       /\ lines_read' = [lines_read EXCEPT ![line] = @ + 1]
       /\ total_records' = total_records + 1
       /\ key_counter' = Increment(key_counter, CountedKey(line))
  /\ UNCHANGED <<skew_threshold_factor, analysis, skew_pc>>
  /\ UNCHANGED <<joinVars, mrVars, cleansingVars, emitVars, mainVars, dirVars>>

\* Lines 50-96: the lines are at their end; the statistics are returned.
SkewReturn ==
  /\ skew_pc = "reading"
  /\ analysis' = Analysis(key_counter, total_records, skew_threshold_factor)
  /\ skew_pc' = "done"
  /\ UNCHANGED <<skew_threshold_factor, lines_read, key_counter,
                 total_records>>
  /\ UNCHANGED <<joinVars, mrVars, cleansingVars, emitVars, mainVars, dirVars>>

SkewNext ==
  \/ SkewReadLine
  \/ SkewReturn

SpecSkew == SkewInit /\ [][SkewNext]_vars

\* ------------------------------------------------------------------------
\* The cleansing mapper, line by line (cleansing_mapper.py).

\* The lines of its input:
\*   2024-01-15T10:30:00Z<TAB>u<TAB>like<TAB>c<TAB>{}   (a valid record)
\*   badline   (no tab)
\*   2023-02-29T10:30:00<TAB>u<TAB>post<TAB>c<TAB>{}   (a day that does not exist)
\*   2024-01-15<TAB>u<TAB>post<TAB>c<TAB>{}   (a date without a time)
\*   2024-02-29T23:59:59<TAB>uA<TAB>POST<TAB>c<TAB>{"k":1}   (a valid record, leap day, no Z)
\*   2024-01-15T10:30:00Z<TAB>u<TAB>like<TAB>c<TAB>{   (metadata that is not JSON)
\*   2024-01-15T10:30:00Z<TAB>u<TAB>like<TAB>c<TAB>   (empty metadata: four fields once stripped)
\*   2024-01-15T10:30:00Z<TAB>u<TAB>share<TAB>c<TAB>{}<TAB>x   (six fields)
\*   2024-01-15T10:30:00Z<TAB>u<TAB>like<TAB>c<TAB>11...1   (metadata of 4301 digits)
CleansingLines ==
  {
    <<50, 48, 50, 52, 45, 48, 49, 45, 49, 53, 84, 49, 48, 58, 51, 48, 58,
    48, 48, 90, 9, 117, 9, 108, 105, 107, 101, 9, 99, 9, 123, 125>>,
    <<98, 97, 100, 108, 105, 110, 101>>,
    <<50, 48, 50, 51, 45, 48, 50, 45, 50, 57, 84, 49, 48, 58, 51, 48, 58,
    48, 48, 9, 117, 9, 112, 111, 115, 116, 9, 99, 9, 123, 125>>,
    <<50, 48, 50, 52, 45, 48, 49, 45, 49, 53, 9, 117, 9, 112, 111, 115, 116,
    9, 99, 9, 123, 125>>,
    <<50, 48, 50, 52, 45, 48, 50, 45, 50, 57, 84, 50, 51, 58, 53, 57, 58,
    53, 57, 9, 117, 65, 9, 80, 79, 83, 84, 9, 99, 9, 123, 34, 107, 34, 58,
    49, 125>>,
    <<50, 48, 50, 52, 45, 48, 49, 45, 49, 53, 84, 49, 48, 58, 51, 48, 58,
    48, 48, 90, 9, 117, 9, 108, 105, 107, 101, 9, 99, 9, 123>>,
    <<50, 48, 50, 52, 45, 48, 49, 45, 49, 53, 84, 49, 48, 58, 51, 48, 58,
    48, 48, 90, 9, 117, 9, 108, 105, 107, 101, 9, 99, 9>>,
    <<50, 48, 50, 52, 45, 48, 49, 45, 49, 53, 84, 49, 48, 58, 51, 48, 58,
    48, 48, 90, 9, 117, 9, 115, 104, 97, 114, 101, 9, 99, 9, 123, 125, 9,
    120>>,
    <<50, 48, 50, 52, 45, 48, 49, 45, 49, 53, 84, 49, 48, 58, 51, 48, 58,
    48, 48, 90, 9, 117, 9, 108, 105, 107, 101, 9, 99, 9>>
      \o [i \in 1..4301 |-> DIGIT0 + 1]
  }

CleansingInit ==
  /\ cleansing_input \in SeqsUpTo(CleansingLines, MaxCleansing)
  /\ cleansing_pos = 0
  /\ discarded_records = NoDiscarded
  /\ cleansing_stdout = <<>>
  /\ cleansing_stderr = <<>>
  /\ cleansing_pc = "reading"
  /\ JoinIdle
  /\ MRIdle
  /\ SkewIdle
  /\ EmitIdle
  /\ MainIdle
  /\ DirIdle

\* Lines 71-102: one pass of the loop.
CleansingReadLine ==
  /\ cleansing_pc = "reading"
  /\ cleansing_pos < Len(cleansing_input)
  /\ LET st == CleansingMapLine([discarded |-> discarded_records,
                                 out |-> cleansing_stdout],
                                cleansing_input[cleansing_pos + 1])
     IN /\ discarded_records' = st.discarded
        /\ cleansing_stdout' = st.out
  /\ cleansing_pos' = cleansing_pos + 1
  /\ UNCHANGED <<cleansing_input, cleansing_stderr, cleansing_pc>>
  /\ UNCHANGED <<joinVars, mrVars, skewVars, emitVars, mainVars, dirVars>>

\* Lines 105-106: at the end of the input the counters go to sys.stderr.
CleansingWriteCounters ==
  /\ cleansing_pc = "reading"
  /\ cleansing_pos = Len(cleansing_input)
  /\ cleansing_stderr' = <<discarded_records>>
  /\ cleansing_pc' = "done"
  /\ UNCHANGED <<cleansing_input, cleansing_pos, discarded_records,
                 cleansing_stdout>>
  /\ UNCHANGED <<joinVars, mrVars, skewVars, emitVars, mainVars, dirVars>>

CleansingNext ==
  \/ CleansingReadLine
  \/ CleansingWriteCounters

SpecCleansing == CleansingInit /\ [][CleansingNext]_vars

\* ------------------------------------------------------------------------
\* The emit loop of the aggregation mapper, on the post counts of two users
\* (action_aggregation_mapper.py lines 37-48).

\* The post counts a user can have: a count grows by one with each post
\* record of the input (line 30), which has any length.
PostCounts == {0, 1, 9, 10, 99, 100} \cup (9998..MaxPostCount)

EmitInit ==
  /\ post_counts \in [1..2 -> PostCounts]
  /\ sort_keys = <<>>
  /\ emit_pc = "emitting"
  /\ JoinIdle
  /\ MRIdle
  /\ SkewIdle
  /\ CleansingIdle
  /\ MainIdle
  /\ DirIdle

\* Lines 37-40: the sort key of the next user.
EmitSortKey ==
  /\ emit_pc = "emitting"
  /\ Len(sort_keys) < Len(post_counts)
  /\ sort_keys' = Append(sort_keys, SortKey(post_counts[Len(sort_keys) + 1]))
  /\ emit_pc' = IF Len(sort_keys') = Len(post_counts) THEN "done"
                ELSE "emitting"
  /\ UNCHANGED post_counts
  /\ UNCHANGED <<joinVars, mrVars, skewVars, cleansingVars, mainVars, dirVars>>

EmitNext == EmitSortKey

SpecEmit == EmitInit /\ [][EmitNext]_vars

\* ------------------------------------------------------------------------
\* main with --job all (local_mapreduce.py lines 253-389), each job as the
\* function of its input files and of the exit statuses of its transforms.

MapperOf(name, lines) ==
  CASE name = "cleansing" -> CleansingMapper(lines)
    [] name = "aggregation" -> ActionAggregationMapper(lines)
    [] name = "trending" -> TrendingContentMapper(lines)

\* The trending job runs with TRENDING_THRESHOLD = '-1' (line 345).
ReducerOf(name, lines) ==
  CASE name = "cleansing" -> CleansingReducer(lines)
    [] name = "aggregation" -> ActionAggregationReducer(lines)
    [] name = "trending" -> TrendingContentReducer(lines, -1)

\* Lines 48-126: what run_map_reduce_job writes to output_path, for the exit
\* statuses rc of the mapper, the combiner and the reducer. A transform that
\* died printed nothing.
run_map_reduce_job(name, lines, rc) ==
  LET mapper_out == IF rc.map = 0 THEN MapperOf(name, lines) ELSE <<>>
      sorted_out == SortLines(StripSplitLines(mapper_out))
      combiner_out ==
        IF rc.combine = 0
        THEN TrendingContentCombiner(StdinLines(sorted_out))
        ELSE <<>>
      reducer_in ==
        IF name = "trending" THEN SortLines(StripSplitLines(combiner_out))
        ELSE sorted_out
  IN IF IsBlankOutput(mapper_out) THEN <<>>
     ELSE IF rc.reduce = 0 THEN ReducerOf(name, StdinLines(reducer_in))
     ELSE <<>>

\* The exit statuses of the transforms of a job; a job without combiner has
\* no combiner to die.
JobStatuses(name) ==
  [map : ExitStatuses,
   combine : IF name = "trending" THEN ExitStatuses ELSE {0},
   reduce : ExitStatuses]

\* A transform of the job exited with a status other than 0.
TransformFailed(rc) == \E f \in DOMAIN rc : rc[f] # 0

RECURSIVE JoinReduceLoop(_, _)
JoinReduceLoop(st, lines) ==
  IF Len(lines) = 0 THEN st
  ELSE JoinReduceLoop(JoinReduceLine(st, Head(lines)), Tail(lines))

\* join_reducer.py: the lines printed for the lines read.
JoinReducer(lines) == JoinFlush(JoinReduceLoop(JoinReducerInit, lines))

\* Lines 151-208: what run_join_job writes to output_path.
run_join_job(activity_lines, profile_lines, skewed_keys, rc) ==
  LET activity_out ==
        IF rc.activity_mapper = 0
        THEN JoinActivityMapper(activity_lines, ParseSkewedKeys(skewed_keys))
        ELSE <<>>
      profile_out ==
        IF rc.profile_mapper = 0
        THEN JoinProfileMapper(profile_lines, ParseSkewedKeys(skewed_keys))
        ELSE <<>>
      sorted_out == SortLines(CombinedLines(activity_out, profile_out))
  IN IF rc.reducer = 0 THEN JoinReducer(StdinLines(sorted_out)) ELSE <<>>

JoinStatuses ==
  [activity_mapper : ExitStatuses, profile_mapper : ExitStatuses,
   reducer : ExitStatuses]

\* skew_detection.py lines 37-48: the Counter of the lines.
RECURSIVE CountKeys(_, _)
CountKeys(counter, lines) ==
  IF Len(lines) = 0 THEN counter
  ELSE CountKeys(Increment(counter, CountedKey(Head(lines))), Tail(lines))

\* ','.join(keys) for a set of keys, in ascending order. The order is that
\* of the Counter in the code; the mappers read the setting as a set.
RECURSIVE JoinKeys(_)
JoinKeys(keys) ==
  IF keys = {} THEN <<>>
  ELSE LET k == CHOOSE a \in keys : \A b \in keys \ {a} : StrLess(a, b)
       IN IF keys = {k} THEN k
          ELSE k \o <<COMMA>> \o JoinKeys(keys \ {k})

\* Lines 216-251: the skewed keys run_skew_detection returns (the string for
\* 'skewed.keys'), which the model also keeps as the line of the analysis
\* file. A script that died printed nothing: the file is empty and "" is
\* returned (lines 249-251).
run_skew_detection(lines, rc) ==
  IF rc = 0
  THEN JoinKeys(Analysis(CountKeys(EmptyCounter, lines), Len(lines),
                         <<1, 100>>).skewed_keys)
  ELSE <<>>

\* The lines of social_media_logs.txt: a valid like of u, 'badline', and a
\* valid POST of uA.
WorkflowLogLines ==
  {
    <<50, 48, 50, 52, 45, 48, 49, 45, 49, 53, 84, 49, 48, 58, 51, 48, 58,
    48, 48, 90, 9, 117, 9, 108, 105, 107, 101, 9, 99, 9, 123, 125>>,
    <<98, 97, 100, 108, 105, 110, 101>>,
    <<50, 48, 50, 52, 45, 48, 50, 45, 50, 57, 84, 50, 51, 58, 53, 57, 58,
    53, 57, 9, 117, 65, 9, 80, 79, 83, 84, 9, 99, 9, 123, 34, 107, 34, 58,
    49, 125>>
  }

\* The state at line 321: the directories exist, each input file may be
\* missing.
MainInit ==
  /\ input_dir \in
       [social_media_logs :
          {NoFile} \cup { FileOf(ls) :
                          ls \in SeqsUpTo(WorkflowLogLines, MaxWorkflowInput) },
        user_profiles :
          {NoFile} \cup { FileOf(ls) :
                          ls \in SeqsUpTo(ProfileLines, MaxProfile) }]
  /\ output_dir = NoOutput
  /\ success = TRUE
  /\ jobs_started = <<>>
  /\ main_pc = "cleansing"
  /\ exit_status = -1
  /\ JoinIdle
  /\ MRIdle
  /\ SkewIdle
  /\ CleansingIdle
  /\ EmitIdle
  /\ DirIdle

\* An exception that main does not catch ends the process with status 1.
Raise(name) ==
  /\ jobs_started' = Append(jobs_started, [name |-> name, failed |-> TRUE])
  /\ exit_status' = 1
  /\ main_pc' = "exited"
  /\ UNCHANGED <<input_dir, output_dir, success>>

\* Lines 324-331: the cleansing job. open(input_path) at line 54 raises
\* FileNotFoundError for a missing file.
RunCleansingJob ==
  /\ main_pc = "cleansing"
  /\ IF ~input_dir.social_media_logs.exists
     THEN Raise("cleansing")
     ELSE \E rc \in JobStatuses("cleansing") :
            /\ output_dir' =
                 [output_dir EXCEPT !.cleansed_data =
                    FileOf(run_map_reduce_job("cleansing",
                             input_dir.social_media_logs.lines, rc))]
            /\ jobs_started' =
                 Append(jobs_started,
                        [name |-> "cleansing", failed |-> TransformFailed(rc)])
            /\ success' = (success /\ TRUE)
            /\ main_pc' = "aggregation"
            /\ UNCHANGED <<input_dir, exit_status>>
  /\ UNCHANGED <<joinVars, mrVars, skewVars, cleansingVars, emitVars, dirVars>>

\* Lines 333-340: the aggregation job, on the cleansed data.
RunAggregationJob ==
  /\ main_pc = "aggregation"
  /\ IF success
     THEN \E rc \in JobStatuses("aggregation") :
            /\ output_dir' =
                 [output_dir EXCEPT !.user_activity =
                    FileOf(run_map_reduce_job("aggregation",
                             output_dir.cleansed_data.lines, rc))]
            /\ jobs_started' =
                 Append(jobs_started,
                        [name |-> "aggregation",
                         failed |-> TransformFailed(rc)])
            /\ success' = (success /\ TRUE)
     ELSE UNCHANGED <<output_dir, jobs_started, success>>
  /\ main_pc' = "trending"
  /\ UNCHANGED <<input_dir, exit_status>>
  /\ UNCHANGED <<joinVars, mrVars, skewVars, cleansingVars, emitVars, dirVars>>

\* Lines 342-353: the trending job, on the cleansed data.
RunTrendingJob ==
  /\ main_pc = "trending"
  /\ IF success
     THEN \E rc \in JobStatuses("trending") :
            /\ output_dir' =
                 [output_dir EXCEPT !.trending_content =
                    FileOf(run_map_reduce_job("trending",
                             output_dir.cleansed_data.lines, rc))]
            /\ jobs_started' =
                 Append(jobs_started,
                        [name |-> "trending", failed |-> TransformFailed(rc)])
            /\ success' = (success /\ TRUE)
     ELSE UNCHANGED <<output_dir, jobs_started, success>>
  /\ main_pc' = "join"
  /\ UNCHANGED <<input_dir, exit_status>>
  /\ UNCHANGED <<joinVars, mrVars, skewVars, cleansingVars, emitVars, dirVars>>

\* Lines 355-374: skew detection on the user activity, then the join job.
\* open(profile_input) at line 168 raises FileNotFoundError for a missing
\* file, after the analysis file was written.
RunJoinJob ==
  /\ main_pc = "join"
  /\ IF success
     THEN \E skew_rc \in ExitStatuses :
            LET skewed_keys ==
                  run_skew_detection(output_dir.user_activity.lines, skew_rc)
                analysed ==
                  [output_dir EXCEPT !.skew_analysis =
                     FileOf(IF skew_rc = 0 THEN <<skewed_keys>> ELSE <<>>)]
            IN IF ~input_dir.user_profiles.exists
               THEN /\ output_dir' = analysed
                    /\ jobs_started' =
                         Append(jobs_started,
                                [name |-> "join", failed |-> TRUE])
                    /\ exit_status' = 1
                    /\ main_pc' = "exited"
                    /\ UNCHANGED <<input_dir, success>>
               ELSE \E rc \in JoinStatuses :
                      /\ output_dir' =
                           [analysed EXCEPT !.joined_data =
                              FileOf(run_join_job(
                                       output_dir.user_activity.lines,
                                       input_dir.user_profiles.lines,
                                       skewed_keys, rc))]
                      /\ jobs_started' =
                           Append(jobs_started,
                                  [name |-> "join",
                                   failed |-> TransformFailed(rc)])
                      /\ success' = (success /\ TRUE)
                      /\ main_pc' = "report"
                      /\ UNCHANGED <<input_dir, exit_status>>
     ELSE /\ main_pc' = "report"
          /\ UNCHANGED <<input_dir, output_dir, success, jobs_started,
                         exit_status>>
  /\ UNCHANGED <<joinVars, mrVars, skewVars, cleansingVars, emitVars, dirVars>>

\* Lines 376-389: return 0 if success, 1 if not; sys.exit(main()).
MainReturn ==
  /\ main_pc = "report"
  /\ exit_status' = IF success THEN 0 ELSE 1
  /\ main_pc' = "exited"
  /\ UNCHANGED <<input_dir, output_dir, success, jobs_started>>
  /\ UNCHANGED <<joinVars, mrVars, skewVars, cleansingVars, emitVars, dirVars>>

MainNext ==
  \/ RunCleansingJob
  \/ RunAggregationJob
  \/ RunTrendingJob
  \/ RunJoinJob
  \/ MainReturn

SpecMain == MainInit /\ [][MainNext]_vars

\* ------------------------------------------------------------------------
\* run_map_reduce_job with a directory as input_path, run again and again on
\* the same paths (local_mapreduce.py lines 30-126), as the aggregation job.

\* The lines a transform reads from a text, and the text of lines printed.
TextLines(text) == StdinLines(Split(text, NL))

RECURSIVE TextOf(_)
TextOf(lines) ==
  IF Len(lines) = 0 THEN <<>>
  ELSE Head(lines) \o <<NL>> \o TextOf(Tail(lines))

\* The directory with the regular file written (created or replaced);
\* isfile tells a regular file from a subdirectory.
WithFile(entries, name, text) ==
  [n \in DOMAIN entries \cup {name} |->
     IF n = name THEN [isfile |-> TRUE, text |-> text]
     ELSE entries[n]]

\* Lines 35-36: the regular files of the directory, in an order of
\* os.listdir, which is arbitrary.
Listings(entries) ==
  LET files == { n \in DOMAIN entries : entries[n].isfile }
  IN { order \in [1..Cardinality(files) -> files] :
         \A i, j \in 1..Cardinality(files) : order[i] = order[j] => i = j }

\* Lines 39-44: the text written to temp_input.txt for the files listed,
\* each file's text and a newline. temp_input.txt was truncated by the open
\* of line 40; if it is itself one of the files listed, what is read from it
\* is what has left the write buffer, and the texts here are shorter than
\* the buffer: nothing.
RECURSIVE MergedInput(_, _, _)
MergedInput(entries, order, reads_temp) ==
  IF Len(order) = 0 THEN <<>>
  ELSE LET text ==
             IF reads_temp /\ Head(order) = "temp_input.txt"
             THEN <<>>
             ELSE entries[Head(order)].text
       IN text \o <<NL>> \o MergedInput(entries, Tail(order), reads_temp)

\* "u<TAB>t<TAB>post<TAB>c" with and without a newline at its end, and
\* "uA<TAB>t<TAB>like<TAB>c" without.
DirInit ==
  /\ \E a \in { <<117, 9, 116, 9, 112, 111, 115, 116, 9, 99>> \o <<NL>>, <<117, 9, 116, 9, 112, 111, 115, 116, 9, 99>> } :
     \E b \in { <<>>, <<117, 65, 9, 116, 9, 108, 105, 107, 101, 9, 99>> } :
     \E sub \in BOOLEAN :
       dir_entries =
         [n \in {"a.txt"} \cup (IF b = <<>> THEN {} ELSE {"b.txt"})
                \cup (IF sub THEN {"sub"} ELSE {}) |->
            CASE n = "a.txt" -> [isfile |-> TRUE, text |-> a]
              [] n = "b.txt" -> [isfile |-> TRUE, text |-> b]
              [] n = "sub" -> [isfile |-> FALSE, text |-> <<>>]]
  /\ out_entries = NoEntries
  /\ output_in_input_dir \in BOOLEAN
  /\ mapper_stdin = <<>>
  /\ JoinIdle
  /\ MRIdle
  /\ SkewIdle
  /\ CleansingIdle
  /\ EmitIdle
  /\ MainIdle

\* Lines 30-126: one run of the job. The files are listed, temp_input.txt is
\* written in the directory of output_path and fed to the mapper, and the
\* reducer's output is written to output_path.
RunJobOnDirectory ==
  /\ Len(mapper_stdin) < MaxRuns
  /\ \E input_files \in Listings(dir_entries) :
     \E rc \in JobStatuses("aggregation") :
       LET merged == MergedInput(dir_entries, input_files,
                                 output_in_input_dir)
           output == TextOf(run_map_reduce_job("aggregation",
                                               TextLines(merged), rc))
           target == IF output_in_input_dir THEN dir_entries
                     ELSE out_entries
           written == WithFile(WithFile(target, "temp_input.txt", merged),
                               "user_activity.txt", output)
       IN /\ mapper_stdin' = Append(mapper_stdin, merged)
          /\ IF output_in_input_dir
             THEN dir_entries' = written /\ UNCHANGED out_entries
             ELSE out_entries' = written /\ UNCHANGED dir_entries
  /\ UNCHANGED output_in_input_dir
  /\ UNCHANGED <<joinVars, mrVars, skewVars, cleansingVars, emitVars,
                 mainVars>>

DirNext == RunJobOnDirectory

SpecDir == DirInit /\ [][DirNext]_vars


\* ------------------------------------------------------------------------
\* Vocabulary of the claims about the join.

\* The key of a record: the text before its first tab.
KeyOf(line) == SplitOnce(line, TAB)[1]

\* A line that decodes to a record with tag t (key<TAB>t:value).
IsTagged(line, t) ==
  /\ Len(SplitOnce(line, TAB)) = 2
  /\ Len(SplitOnce(line, TAB)[2]) >= 1
  /\ SplitOnce(line, TAB)[2][1] = t

\* Every subprocess of the join job exited with status 0.
JoinAllExitedZero == \A i \in 1..Len(join_stages) : join_stages[i][2] = 0

JoinDoneClean == join_pc = "done" /\ JoinAllExitedZero

\* The logical keys of the tagged stream: the keys of its records, salt
\* stripped.
LogicalKeys(lines) ==
  { StripSalt(KeyOf(lines[i])) :
      i \in { j \in 1..Len(lines) : Len(SplitOnce(lines[j], TAB)) = 2 } }

HasTagged(lines, k, t) ==
  \E i \in 1..Len(lines) :
    IsTagged(lines[i], t) /\ StripSalt(KeyOf(lines[i])) = k

RowKeys(rows) == { KeyOf(rows[i]) : i \in 1..Len(rows) }

\* C1: when the join job has run with every transform succeeding, a logical
\* key has a row in the joined output if and only if the tagged stream holds,
\* after salt stripping, a record tagged A and a record tagged P for it.
C1_JoinCompleteness ==
  JoinDoneClean =>
    \A k \in LogicalKeys(join_sorted_lines) \cup RowKeys(joined_data_output.lines) :
      (k \in RowKeys(joined_data_output.lines))
        <=> (HasTagged(join_sorted_lines, k, TAGA)
               /\ HasTagged(join_sorted_lines, k, TAGP))

\* The user ids of the well-formed activity records, and of the profile
\* records.
ActivityIds ==
  { SplitOnce(Strip(activity_input[i]), TAB)[1] :
      i \in { j \in 1..Len(activity_input) :
                Len(SplitOnce(Strip(activity_input[j]), TAB)) >= 2 } }

ProfileIds ==
  { Split(SplitOnce(Strip(profile_input[i]), TAB)[1], COMMA)[1] :
      i \in 1..Len(profile_input) }

RowsWithKey(rows, k) == { i \in 1..Len(rows) : KeyOf(rows[i]) = k }

\* C2: a key of the skewed set that both mappers fanned out to its salted
\* variants gets exactly one joined row.
C2_SaltedKeyOneRow ==
  JoinDoneClean =>
    \A k \in ParseSkewedKeys(skewed_keys_str) :
      (k \in ActivityIds /\ k \in ProfileIds) =>
        Cardinality(RowsWithKey(joined_data_output.lines, k)) = 1

\* The keys of the records the two mappers printed.
MappedKeys ==
  { KeyOf(activity_mapper_output[i]) : i \in 1..Len(activity_mapper_output) }
    \cup
  { KeyOf(profile_mapper_output[i]) : i \in 1..Len(profile_mapper_output) }

\* C3: every salted key the mappers built for a skewed key k (k, '_' and a
\* salt index) strips back to k, and stripping twice is stripping once.
C3_SaltRoundTrip ==
  \A k \in ParseSkewedKeys(skewed_keys_str) :
    \A i \in 0..(NUM_SALTS - 1) :
      SaltedKey(k, i) \in MappedKeys =>
        /\ StripSalt(SaltedKey(k, i)) = k
        /\ StripSalt(StripSalt(SaltedKey(k, i))) = StripSalt(SaltedKey(k, i))

\* The case of C6: one activity record id<TAB>activity and one profile record
\* id,rest with the same id.
OnePairCase ==
  /\ Len(activity_input) = 1
  /\ Len(profile_input) = 1
  /\ ActivityIds # {}
  /\ Contains(profile_input[1], COMMA)
  /\ ProfileIds = ActivityIds

PairId == CHOOSE k \in ActivityIds : TRUE
PairActivity == SplitOnce(Strip(activity_input[1]), TAB)[2]
PairRest == SplitOnce(profile_input[1], COMMA)[2]

\* C6 as stated: the one row is id<TAB>rest<TAB>activity.
C6_RowIsIdRestActivity ==
  (JoinDoneClean /\ OnePairCase) =>
    joined_data_output.lines =
      << PairId \o <<TAB>> \o PairRest \o <<TAB>> \o PairActivity >>

\* C6, amended: the one row is key<TAB>profile record<TAB>activity, where key
\* is the id cut at its first '_' and the profile record is the whole line,
\* id included.
C6_RowIsKeyProfileActivity ==
  (JoinDoneClean /\ OnePairCase) =>
    joined_data_output.lines =
      << StripSalt(PairId) \o <<TAB>> \o Strip(profile_input[1])
           \o <<TAB>> \o PairActivity >>

C6_Witness ==
  /\ JoinDoneClean
  /\ OnePairCase
  /\ Len(joined_data_output.lines) = 1

\* The records of a stream that have key k, in the stream's order.
WithKey(lines, k) ==
  LET HasKey(line) == KeyOf(line) = k
  IN SelectSeq(lines, HasKey)

\* C7: the records of the mapped stream that share a key keep, in the sorted
\* stream, the order they had in the mappers' output.
C7_SortStableOnKeys ==
  join_pc \in {"sorted", "reduced", "done"} =>
    LET mapped == CombinedLines(activity_mapper_output, profile_mapper_output)
    IN \A k \in { KeyOf(mapped[i]) : i \in 1..Len(mapped) } :
         WithKey(join_sorted_lines, k) = WithKey(mapped, k)

\* ------------------------------------------------------------------------
\* Claims about run_map_reduce_job.

SomeStageFailed == \E i \in 1..Len(stages) : stages[i][2] # 0

\* C4: if a stage transform of the job completes with a non-zero status, the
\* job does not return success and its output file is not written.
C4_FailedStageNoOutput ==
  SomeStageFailed => (returned # "True" /\ ~output_file.exists)

\* The mapper printed no character that is not whitespace.
EmptyMappedStream ==
  \A i \in 1..Len(mapper_output) : AllSpace(mapper_output[i])

\* C5: when the map transform emitted an empty stream, the next step of the
\* job takes it to Done: an empty output file is written, True is returned,
\* and no sort, combine or reduce is run.
C5_EmptyMapShortCircuits ==
  [][(pc = "mapped" /\ EmptyMappedStream)
       => /\ pc' = "done"
          /\ output_file' = FileOf(<<>>)
          /\ returned' = "True"
          /\ stages' = stages
          /\ sorted_lines' = sorted_lines
          /\ reducer_output' = reducer_output]_vars

\* A mapper that exited with status 0 read a non-empty input, emitted
\* nothing, and the job is done without another stage.
C5_Witness ==
  /\ pc = "done"
  /\ Len(input_lines) > 0
  /\ stages = << <<"map", 0>> >>
  /\ output_file = FileOf(<<>>)
  /\ returned = "True"

\* The sort has run.
SortHasRun == pc \in {"sorted", "combined", "reduced", "done"} /\ sorted_lines # <<>>

\* C8: sorting the sorted stream again yields the identical sequence.
C8_SortIdempotent == SortHasRun => SortLines(sorted_lines) = sorted_lines

\* The sort changed the order of a stream of at least three lines.
C8_Witness ==
  /\ pc = "sorted"
  /\ Len(sorted_lines) >= 3
  /\ sorted_lines # StripSplitLines(mapper_output)
  /\ SortLines(sorted_lines) = sorted_lines

\* The primary key of a record: its key, cut at the first comma
\* (action_aggregation_reducer.py line 23, skew_detection.py lines 40-44).
PrimaryKey(line) == Split(KeyOf(line), COMMA)[1]

\* No record with another primary key lies between two records of one.
PrimaryContiguous(lines) ==
  \A i, j, k \in 1..Len(lines) :
    (i < j /\ j < k /\ PrimaryKey(lines[i]) = PrimaryKey(lines[k]))
      => PrimaryKey(lines[j]) = PrimaryKey(lines[i])

\* No record with another key lies between two records of one key.
KeyContiguous(lines) ==
  \A i, j, k \in 1..Len(lines) :
    (i < j /\ j < k /\ KeyOf(lines[i]) = KeyOf(lines[k]))
      => KeyOf(lines[j]) = KeyOf(lines[i])

\* Every key of the stream is composite: primary, comma, secondary.
AllComposite(lines) == \A i \in 1..Len(lines) : Contains(KeyOf(lines[i]), COMMA)

\* C9, as stated: in the sorted stream all records sharing a primary key
\* form one contiguous block.
C9_PrimaryKeysContiguous == SortHasRun => PrimaryContiguous(sorted_lines)

\* C9, amended: in the sorted stream the records sharing a key form one
\* contiguous block, and when every key of the stream is composite (as every
\* key the aggregation mapper emits is) so do the records sharing a primary
\* key.
C9_CompositeKeysContiguous ==
  SortHasRun =>
    /\ KeyContiguous(sorted_lines)
    /\ AllComposite(sorted_lines) => PrimaryContiguous(sorted_lines)

\* A sorted stream of composite keys in which two records share a primary
\* key and a third has another, and which the mapper emitted in another
\* order.
C9_Witness ==
  /\ pc = "sorted"
  /\ AllComposite(sorted_lines)
  /\ sorted_lines # StripSplitLines(mapper_output)
  /\ \E i, j, k \in 1..Len(sorted_lines) :
       /\ i # j
       /\ PrimaryKey(sorted_lines[i]) = PrimaryKey(sorted_lines[j])
       /\ PrimaryKey(sorted_lines[k]) # PrimaryKey(sorted_lines[i])

\* The aggregation job ran to its end and no transform of it died.
AggregationJobDone ==
  /\ job = "aggregation"
  /\ pc = "done"
  /\ \A i \in 1..Len(stages) : stages[i][2] = 0

\* The fields of the i-th input record, 'user<TAB>timestamp<TAB>action...'.
InputFields(i) == Split(input_lines[i], TAB)

\* The i-th input line is a record of user u with action type a, whatever
\* the case of its letters.
IsActionOf(i, u, a) ==
  /\ Len(InputFields(i)) >= 3
  /\ InputFields(i)[1] = u
  /\ Lower(InputFields(i)[3]) = a

\* The users with at least one post, like, comment or share.
ActiveUsers ==
  { InputFields(i)[1] :
      i \in { j \in 1..Len(input_lines) :
                /\ Len(InputFields(j)) >= 3
                /\ Lower(InputFields(j)[3]) \in ActionTypes } }

\* How many input records user u has of action type a.
ActionCount(u, a) ==
  Cardinality({ i \in 1..Len(input_lines) : IsActionOf(i, u, a) })

\* The record of user u with those counts.
ExpectedActivityLine(u) ==
  u \o <<TAB>> \o POSTS_ \o Str(ActionCount(u, POST))
    \o LIKES_ \o Str(ActionCount(u, LIKE))
    \o COMMENTS_ \o Str(ActionCount(u, COMMENT))
    \o SHARES_ \o Str(ActionCount(u, SHARE))

\* C16: the aggregation job writes exactly one record per user with at least
\* one post, like, comment or share, and the record's four counts are the
\* numbers of that user's input records of each action type, 0 for a type
\* that does not occur.
C16_OneRecordPerActiveUser ==
  AggregationJobDone =>
    /\ Len(output_file.lines) = Cardinality(ActiveUsers)
    /\ \A u \in ActiveUsers :
         \E i \in 1..Len(output_file.lines) :
           output_file.lines[i] = ExpectedActivityLine(u)

\* The stage that run_map_reduce_job has completed, for each value of pc:
\* "start" is Idle, "mapped" Mapping, "sorted" Sorting, "combined" Combining
\* and ReSorting, "reduced" Reducing, "done" Done.
StageSteps ==
  { <<"start", "mapped">>, <<"mapped", "sorted">>, <<"sorted", "combined">>,
    <<"sorted", "reduced">>, <<"combined", "reduced">>,
    <<"reduced", "done">> }

\* The step is one of the stage order, the combiner's stages taken exactly
\* when a combiner was given.
FollowsStageOrder ==
  /\ <<pc, pc'>> \in StageSteps
  /\ pc' = "combined" => HasCombiner
  /\ (pc = "sorted" /\ pc' = "reduced") => ~HasCombiner

\* A stage receives the complete output of the stage before it: the sort all
\* the lines the mapper (or the combiner) printed, the reducer all the sorted
\* lines.
HandsOverCompleteOutput ==
  /\ pc' \in {"sorted", "combined"} =>
       /\ Len(sorted_lines') = Len(StripSplitLines(mapper_output'))
       /\ \A i \in 1..Len(sorted_lines') :
            \E j \in 1..Len(sorted_lines') :
              StripSplitLines(mapper_output')[j] = sorted_lines'[i]
  /\ (pc' = "reduced" /\ stages'[Len(stages')][2] = 0) =>
       reducer_output' = Reducer(StdinLines(sorted_lines))

\* The subprocesses run so far are those of the stages completed, in order.
StagesRun ==
  LET names == [i \in 1..Len(stages) |-> stages[i][1]]
  IN names =
       CASE pc = "start" -> <<>>
         [] pc \in {"mapped", "sorted"} -> <<"map">>
         [] pc = "combined" -> <<"map", "combine">>
         [] pc = "reduced" /\ HasCombiner -> <<"map", "combine", "reduce">>
         [] pc = "reduced" /\ ~HasCombiner -> <<"map", "reduce">>
         [] pc = "done" -> names

\* The step from Mapping straight to Done of a mapper that printed nothing:
\* the empty output file is written and no further stage runs.
EmptyMapStep ==
  /\ pc = "mapped" /\ pc' = "done"
  /\ IsBlankOutput(mapper_output)
  /\ output_file' = FileOf(<<>>)
  /\ stages' = stages

\* C19, as stated: every step of run_map_reduce_job follows the stage order
\* Idle, Mapping, Sorting, (Combining, ReSorting with a combiner,) Reducing,
\* Done, each stage receiving the complete output of the one before, and the
\* output file is written only by the step that follows Reducing.
C19_StrictStageOrder ==
  [][pc' # pc =>
       /\ FollowsStageOrder
       /\ HandsOverCompleteOutput
       /\ StagesRun'
       /\ output_file' # output_file => pc = "reduced"]_vars

\* C19, amended: as above, except that a job whose mapper printed nothing
\* goes from Mapping straight to Done and writes the empty output file.
C19_StageOrderOrEmptyMap ==
  [][pc' # pc =>
       \/ EmptyMapStep
       \/ /\ FollowsStageOrder
          /\ HandsOverCompleteOutput
          /\ StagesRun'
          /\ output_file' # output_file => pc = "reduced"]_vars

\* A job with a combiner went through every stage and wrote a record.
C19_Witness ==
  /\ pc = "done"
  /\ HasCombiner
  /\ stages = <<<<"map", 0>>, <<"combine", 0>>, <<"reduce", 0>>>>
  /\ output_file.exists
  /\ Len(output_file.lines) > 0
  /\ output_file.lines = reducer_output

\* ------------------------------------------------------------------------
\* Claims about analyze_key_distribution.

RECURSIVE SumRead(_)
\* The number of reads of the lines of a set.
SumRead(S) ==
  IF S = {} THEN 0
  ELSE LET l == CHOOSE x \in S : TRUE
       IN lines_read[l] + SumRead(S \ {l})

\* The primary key of a record of the stream: the text of the line, without
\* the whitespace around it, before the first tab, cut at the first comma.
PrimaryOfRecord(line) == Split(SplitOnce(Strip(line), TAB)[1], COMMA)[1]

\* The primary key of each line of the stream.
PrimaryOfLine == [l \in SkewLines |-> PrimaryOfRecord(l)]

\* The records read with primary key k, the records read, the keys read.
RecordsOf(k) == SumRead({ l \in SkewLines : PrimaryOfLine[l] = k })
RecordsRead == SumRead(SkewLines)
KeysRead == { PrimaryOfLine[l] : l \in { x \in SkewLines : lines_read[x] > 0 } }

\* C10: for a non-empty stream, skew_threshold is the larger of
\* thresholdFactor * total_records and 5 * total_records / unique_keys, with
\* the records counted per primary key, and skewed_keys are exactly the keys
\* whose count is strictly greater than it.
C10_ThresholdAndSkewedKeys ==
  (skew_pc = "done" /\ RecordsRead > 0) =>
    LET T == RecordsRead
        u == Cardinality(KeysRead)
        fn == skew_threshold_factor[1]
        fd == skew_threshold_factor[2]
        larger == IF fn * T * u >= 5 * T * fd THEN fn * T * u ELSE 5 * T * fd
    IN /\ analysis.skew_threshold[1] * (fd * u)
            = larger * analysis.skew_threshold[2]
       /\ analysis.skewed_keys =
            { k \in KeysRead : /\ RecordsOf(k) * fd > fn * T
                               /\ RecordsOf(k) * u > 5 * T }

\* A stream with a composite key and with a skewed key was analysed.
C10_Witness ==
  /\ skew_pc = "done"
  /\ lines_read[<<L.x, COMMA, DIGIT0 + 1, TAB, L.y>>] > 0
  /\ analysis.skewed_keys = { <<L.u>> }

\* C11: for a stream of zero records the profile has total_records 0,
\* skew_threshold 0 (no division by zero) and no skewed key.
C11_ZeroRecords ==
  (skew_pc = "done" /\ RecordsRead = 0) =>
    /\ analysis.total_records = 0
    /\ analysis.skew_threshold[2] # 0
    /\ analysis.skew_threshold[1] = 0
    /\ analysis.skewed_keys = {}

\* The stream of zero records was analysed.
C11_Witness ==
  /\ skew_pc = "done"
  /\ RecordsRead = 0
  /\ key_counter = EmptyCounter
  /\ analysis.unique_keys = 0

\* skewed_keys of the stream read so far, and of the stream after the step.
SkewedNow ==
  Analysis(key_counter, total_records, skew_threshold_factor).skewed_keys
SkewedNext ==
  Analysis(key_counter', total_records', skew_threshold_factor').skewed_keys

\* The step adds one record with key k and leaves the other counts alone.
AddsRecordOf(k) ==
  /\ total_records' = total_records + 1
  /\ CountOf(key_counter', k) = CountOf(key_counter, k) + 1
  /\ \A j \in DOMAIN key_counter \ {k} : key_counter'[j] = key_counter[j]

\* C12: with the default factor 0.01, a skewed key stays skewed when one
\* more record with that key is added.
C12_SkewedKeyStaysSkewed ==
  [][\A k \in DOMAIN key_counter :
       (skew_threshold_factor = <<1, 100>> /\ k \in SkewedNow
          /\ AddsRecordOf(k))
         => k \in SkewedNext]_vars

\* The hot key is skewed with a record more than it needs to be.
C12_Witness ==
  /\ skew_pc = "reading"
  /\ skew_threshold_factor = <<1, 100>>
  /\ <<L.u>> \in SkewedNow
  /\ Cardinality(DOMAIN key_counter) = 6
  /\ total_records = 32
  /\ key_counter[<<L.u>>] = 27

\* C13, as stated: adding a record with key k never changes whether another
\* key j is skewed.
C13_OtherKeysUnchanged ==
  [][\A k \in DOMAIN key_counter' :
       AddsRecordOf(k) =>
         \A j \in DOMAIN key_counter' \ {k} :
           (j \in SkewedNext) <=> (j \in SkewedNow)]_vars

\* C13, amended: adding a record with a key k that the stream already has
\* never makes another key j skewed (the threshold only rises, so j can only
\* leave skewed_keys).
C13_OtherKeysNeverEnter ==
  [][\A k \in DOMAIN key_counter :
       AddsRecordOf(k) =>
         \A j \in DOMAIN key_counter \ {k} :
           (j \in SkewedNext) => (j \in SkewedNow)]_vars

\* The hot key would be skewed with 26 of 31 records over 6 keys; a second
\* record of another key was added and it is not skewed.
C13_Witness ==
  /\ skew_pc = "reading"
  /\ Cardinality(DOMAIN key_counter) = 6
  /\ total_records = 32
  /\ key_counter[<<L.u>>] = 26
  /\ SkewedNow = {}

\* ------------------------------------------------------------------------
\* Claims about the join mappers.

\* The skewed-key set of the setting: no key for the empty string, else the
\* keys between its commas.
SkewedSet ==
  IF skewed_keys_str = <<>> THEN {}
  ELSE { Split(skewed_keys_str, COMMA)[i] :
           i \in 1..Len(Split(skewed_keys_str, COMMA)) }

\* The records of the two inputs: a line of the activity file is a record
\* when it has a tab (key, value); every line of the profile file is one
\* (key: the text before the first comma of its first field; value: the
\* line).
IsActivityRecord(i) == Len(SplitOnce(Strip(activity_input[i]), TAB)) = 2
ActivityKey(i) == SplitOnce(Strip(activity_input[i]), TAB)[1]
ActivityValue(i) == SplitOnce(Strip(activity_input[i]), TAB)[2]
ProfileKey(i) ==
  Split(SplitOnce(Strip(profile_input[i]), TAB)[1], COMMA)[1]
ProfileValue(i) == Strip(profile_input[i])

\* The number of records a mapper has to emit for the first n lines.
RECURSIVE ActivityEmitted(_)
ActivityEmitted(n) ==
  IF n = 0 THEN 0
  ELSE ActivityEmitted(n - 1)
         + (IF ~IsActivityRecord(n) THEN 0
            ELSE IF ActivityKey(n) \in SkewedSet THEN 10 ELSE 1)

RECURSIVE ProfileEmitted(_)
ProfileEmitted(n) ==
  IF n = 0 THEN 0
  ELSE ProfileEmitted(n - 1)
         + (IF ProfileKey(n) \in SkewedSet THEN 10 ELSE 1)

\* The records emitted for one input record, at their place in the output:
\* for a skewed key the ten records key_0 .. key_9, else the one record with
\* the key itself, all with the value tagged.
EmitsFor(out, first, key, tag, value) ==
  IF key \in SkewedSet
  THEN \A index \in 0..9 :
         out[first + index + 1] =
           key \o <<USCORE, DIGIT0 + index, TAB, tag, COLON>> \o value
  ELSE out[first + 1] = key \o <<TAB, tag, COLON>> \o value

BothMappersRan ==
  /\ Len(join_stages) >= 2
  /\ join_stages[1][2] = 0
  /\ join_stages[2][2] = 0

\* C14: each mapper emits, for a record whose key is in the skewed set,
\* exactly the ten records key_0 .. key_9 with the same tagged value, and for
\* any other record exactly one record with the original key; an empty
\* setting salts no key.
C14_EmitSideSalting ==
  BothMappersRan =>
    /\ Len(activity_mapper_output) = ActivityEmitted(Len(activity_input))
    /\ \A i \in 1..Len(activity_input) :
         IsActivityRecord(i) =>
           EmitsFor(activity_mapper_output, ActivityEmitted(i - 1),
                    ActivityKey(i), TAGA, ActivityValue(i))
    /\ Len(profile_mapper_output) = ProfileEmitted(Len(profile_input))
    /\ \A i \in 1..Len(profile_input) :
         EmitsFor(profile_mapper_output, ProfileEmitted(i - 1),
                  ProfileKey(i), TAGP, ProfileValue(i))
    /\ skewed_keys_str = <<>> =>
         /\ Len(activity_mapper_output) <= Len(activity_input)
         /\ Len(profile_mapper_output) = Len(profile_input)

\* Both mappers ran on a skewed key, and the activity mapper on another key
\* as well.
C14_Witness ==
  /\ BothMappersRan
  /\ SkewedSet # {}
  /\ Len(activity_input) = 2
  /\ Len(activity_mapper_output) = 11
  /\ Len(profile_mapper_output) = 10

\* ------------------------------------------------------------------------
\* Claims about the cleansing mapper.

\* The line the loop reads in this step.
CleansingLineRead == cleansing_input[cleansing_pos + 1]

\* The loop reads a line in this step.
CleansingReads ==
  /\ cleansing_pc = "reading"
  /\ cleansing_pos < Len(cleansing_input)
  /\ cleansing_pos' = cleansing_pos + 1

\* The tab-separated fields of a line as it was read.
TabFields(line) == Split(line, TAB)

\* C15: a line with fewer than 5 tab-separated fields increments
\* missing_fields and total_discarded by one and no other counter, prints no
\* record, and leaves the loop reading: the mapper ends only after it has read
\* every line.
C15_MissingFieldsDiscarded ==
  /\ [][(CleansingReads /\ Len(TabFields(CleansingLineRead)) < 5) =>
          /\ discarded_records'.missing_fields
               = discarded_records.missing_fields + 1
          /\ discarded_records'.total_discarded
               = discarded_records.total_discarded + 1
          /\ discarded_records'.invalid_timestamp
               = discarded_records.invalid_timestamp
          /\ discarded_records'.malformed_json
               = discarded_records.malformed_json
          /\ cleansing_stdout' = cleansing_stdout
          /\ cleansing_pc' = "reading"]_vars
  /\ [](cleansing_pc = "done" => cleansing_pos = Len(cleansing_input))

\* The mapper ended after it read 'badline', then a valid record that it
\* printed, then 'badline' again.
C15_Witness ==
  /\ cleansing_pc = "done"
  /\ Len(cleansing_input) = 3
  /\ Len(TabFields(cleansing_input[1])) = 1
  /\ Len(TabFields(cleansing_input[3])) = 1
  /\ Len(cleansing_stdout) = 1
  /\ discarded_records = [NoDiscarded EXCEPT !.missing_fields = 2,
                                             !.total_discarded = 2]
  /\ cleansing_stderr = <<discarded_records>>

\* ------------------------------------------------------------------------
\* Claims about the aggregation mapper's sort key.

\* C18: for the post counts a and b of two users, a > b exactly if the sort
\* key of a is lexicographically smaller than the sort key of b.
C18_SortKeyOrderIsDescendingCount ==
  emit_pc = "done" =>
    (post_counts[1] > post_counts[2]
       <=> StrLess(sort_keys[1], sort_keys[2]))

\* ------------------------------------------------------------------------
\* Claims about the join reducer's buffers.

\* The lines the reducer reads, and how many of them it has read.
ReducerLines == StdinLines(join_sorted_lines)
LinesRead == join_reducer_pos - 1

\* The i-th line is a record: a key, a tab, a tagged value.
IsTaggedRecord(i) == Len(SplitOnce(Strip(ReducerLines[i]), TAB)) = 2

\* Its key as the reducer compares keys, its tag and its value.
ReadKey(i) == StripSalt(SplitOnce(Strip(ReducerLines[i]), TAB)[1])
ReadTag(i) == SplitOnce(Strip(ReducerLines[i]), TAB)[2][1]
ReadValue(i) ==
  LET tagged_data == SplitOnce(Strip(ReducerLines[i]), TAB)[2]
  IN SubSeq(tagged_data, 3, Len(tagged_data))

\* Record i is of the key current after n lines: no key change lies between
\* it and the n-th line.
SinceKeyChange(i, n) ==
  /\ i <= n
  /\ IsTaggedRecord(i)
  /\ \A j \in i..n : IsTaggedRecord(j) => ReadKey(j) = ReadKey(i)

\* The value of the last record with the tag among the first n lines that
\* was read since the last key change; None without such a record.
LastValue(tag, n) ==
  LET records == { i \in 1..n : SinceKeyChange(i, n) /\ ReadTag(i) = tag }
  IN IF records = {} THEN None
     ELSE ReadValue(CHOOSE i \in records : \A j \in records : j <= i)

\* The reducer reads a record of the tag under the current key in this step.
ReadsUnderCurrentKey(tag) ==
  /\ join_pc = "reducing"
  /\ join_reducer_pos' = join_reducer_pos + 1
  /\ IsTaggedRecord(join_reducer_pos)
  /\ ReadKey(join_reducer_pos) = join_reducer.current_user
  /\ ReadTag(join_reducer_pos) = tag

\* C20: while the reducer reads, each buffer holds the value of the last
\* record of its tag read since the last key change; a row printed carries
\* these two values; and a record of one tag read under the current key
\* leaves the buffer of the other tag as it was.
C20_LastTagWins ==
  /\ [](join_pc = "reducing" =>
          /\ join_reducer.profile_data = LastValue(TAGP, LinesRead)
          /\ join_reducer.activity_data = LastValue(TAGA, LinesRead))
  /\ [][(join_pc = "reducing"
           /\ Len(join_reducer'.out) # Len(join_reducer.out)) =>
          /\ Len(join_reducer'.out) = Len(join_reducer.out) + 1
          /\ join_reducer'.out[Len(join_reducer'.out)] =
               join_reducer.current_user \o <<TAB>>
                 \o LastValue(TAGP, LinesRead) \o <<TAB>>
                 \o LastValue(TAGA, LinesRead)]_vars
  /\ [][/\ ReadsUnderCurrentKey(TAGA) =>
             join_reducer'.profile_data = join_reducer.profile_data
        /\ ReadsUnderCurrentKey(TAGP) =>
             join_reducer'.activity_data = join_reducer.activity_data]_vars

\* The reducer read two activity records and a profile record of one key,
\* each activity record with a value of its own, and printed the row with
\* the value of the second.
C20_Witness ==
  /\ join_pc = "reduced"
  /\ Len(ReducerLines) = 3
  /\ \A i \in 1..3 : IsTaggedRecord(i) /\ ReadKey(i) = ReadKey(1)
  /\ ReadTag(1) = TAGA /\ ReadTag(2) = TAGA /\ ReadTag(3) = TAGP
  /\ ReadValue(1) # ReadValue(2)
  /\ join_reducer.out =
       <<ReadKey(1) \o <<TAB>> \o ReadValue(3) \o <<TAB>> \o ReadValue(2)>>

\* ------------------------------------------------------------------------
\* Claims about the workflow.

\* The jobs started so far that failed: a transform of the job exited with a
\* status other than 0, or the job raised.
FailedJobs == { i \in 1..Len(jobs_started) : jobs_started[i].failed }

\* The output file a job commits.
OutputOf(name) ==
  CASE name = "cleansing" -> "cleansed_data"
    [] name = "aggregation" -> "user_activity"
    [] name = "trending" -> "trending_content"
    [] name = "join" -> "joined_data"

\* The workflow ended after a job failed, with a status other than 0.
FailureReported ==
  (main_pc = "exited" /\ FailedJobs # {}) => exit_status # 0

\* No job was started after a job that failed.
NoJobAfterFailure == \A i \in FailedJobs : i = Len(jobs_started)

\* A step leaves the output files of the jobs that completed before a failed
\* job as they are.
EarlierOutputsKept ==
  \A i \in FailedJobs :
    \A j \in 1..(i - 1) :
      ~jobs_started[j].failed =>
        output_dir'[OutputOf(jobs_started[j].name)]
          = output_dir[OutputOf(jobs_started[j].name)]

\* C17: with --job all, after a job failed the workflow exits with a status
\* other than 0, no later job is started, and the output files of the jobs
\* that completed before the failure stay unchanged.
C17_FailureStopsWorkflow ==
  /\ [](FailureReported /\ NoJobAfterFailure)
  /\ [][EarlierOutputsKept]_vars

\* ------------------------------------------------------------------------
\* Claims about a join with one salted source.

\* The activity mapper, or the profile mapper, ran with the setting.
ActivitySideSalted ==
  activity_mapper_output = JoinActivityMapper(activity_input, SkewedSet)
ProfileSideSalted ==
  profile_mapper_output = JoinProfileMapper(profile_input, SkewedSet)

\* The keys with a record in both sources that one source salted and the
\* other did not.
OneSideSaltedKeys ==
  { k \in SkewedSet :
      /\ \E i \in 1..Len(activity_input) :
           IsActivityRecord(i) /\ ActivityKey(i) = k
      /\ \E i \in 1..Len(profile_input) : ProfileKey(i) = k
      /\ ~(ActivitySideSalted /\ ProfileSideSalted) }

\* The rows that pair a record of key k of one source with a record of key k
\* of the other, under the key the reducer prints.
PairingRows(k) ==
  { StripSalt(k) \o <<TAB>> \o ProfileValue(j) \o <<TAB>> \o ActivityValue(i) :
      i \in { a \in 1..Len(activity_input) :
                IsActivityRecord(a) /\ ActivityKey(a) = k },
      j \in { b \in 1..Len(profile_input) : ProfileKey(b) = k } }

\* The reducer ran to its end on the sorted stream.
JoinReducedClean == join_pc \in {"reduced", "done"} /\ JoinAllExitedZero

\* The records that the reducer groups under the key of k lie together in
\* the sorted stream: no record of another key sorts between them.
GroupedTogether(k) ==
  \A i, j \in 1..Len(join_sorted_lines) :
    (/\ i < j
     /\ StripSalt(KeyOf(join_sorted_lines[i])) = StripSalt(k)
     /\ StripSalt(KeyOf(join_sorted_lines[j])) = StripSalt(k)) =>
      \A m \in i..j : StripSalt(KeyOf(join_sorted_lines[m])) = StripSalt(k)

\* C21, as stated: for a key that only one source salted, the join prints no
\* row that pairs a salted-variant record with the unsalted record of the
\* other source.
C21_OneSideSaltedDropped ==
  JoinReducedClean =>
    \A k \in OneSideSaltedKeys :
      \A i \in 1..Len(join_reducer_output) :
        join_reducer_output[i] \notin PairingRows(k)

\* No other user id of the two inputs is stripped to the key that k is
\* stripped to.
OnlyIdOfItsKey(k) ==
  \A id \in ActivityIds \cup ProfileIds :
    StripSalt(id) = StripSalt(k) => id = k

\* C21, amended: the reducer strips the salt before it groups, so for a key
\* that only one source salted the join prints a row under the stripped key
\* whenever the key's records lie together in the sorted stream; when no
\* other user id is stripped to the same key, that row pairs the record of
\* one source with the record of the other, and no such row is printed when
\* a record of another key sorts between them.
C21_OneSideSaltedJoinsWhenGrouped ==
  JoinReducedClean =>
    \A k \in OneSideSaltedKeys :
      /\ GroupedTogether(k) =>
           \E i \in 1..Len(join_reducer_output) :
             KeyOf(join_reducer_output[i]) = StripSalt(k)
      /\ OnlyIdOfItsKey(k) =>
           (GroupedTogether(k) <=>
              \E i \in 1..Len(join_reducer_output) :
                join_reducer_output[i] \in PairingRows(k))

\* The profile source was salted for a key and the activity source was not,
\* and the join printed the row of the key.
C21_Witness ==
  /\ JoinReducedClean
  /\ OneSideSaltedKeys # {}
  /\ Len(profile_mapper_output) = 10
  /\ Len(activity_mapper_output) = 1
  /\ Len(join_reducer_output) = 1
  /\ \E k \in OneSideSaltedKeys : join_reducer_output[1] \in PairingRows(k)

\* ------------------------------------------------------------------------
\* Claims about lines the join reducer cannot decode.

\* Lines without a tab once stripped: "", "u", "u<TAB>", "<TAB>A:x".
UndecodableLines ==
  { <<>>, <<L.u>>, <<L.u, TAB>>, <<TAB, TAGA, COLON, L.x>> }

\* The lines the reducer reads that are records.
RECURSIVE TaggedRecordsOnly(_)
TaggedRecordsOnly(lines) ==
  IF Len(lines) = 0 THEN <<>>
  ELSE IF Len(SplitOnce(Strip(Head(lines)), TAB)) = 2
  THEN <<Head(lines)>> \o TaggedRecordsOnly(Tail(lines))
  ELSE TaggedRecordsOnly(Tail(lines))

\* C22: a line without a tab, the empty line included, is skipped by the
\* join reducer. Wherever the reducer is in its stream, reading such a line
\* would leave the current key, both buffers and the rows printed as they
\* are; the step that reads one does so and the reducer goes on to the next
\* line; and the rows printed at the end are those printed for the stream
\* without these lines.
C22_UndecodableLineSkipped ==
  /\ [](join_pc = "reducing" =>
          \A line \in UndecodableLines :
            JoinReduceLine(join_reducer, line) = join_reducer)
  /\ [][(/\ join_pc = "reducing"
         /\ join_reducer_pos' = join_reducer_pos + 1
         /\ ~IsTaggedRecord(join_reducer_pos)) =>
          /\ join_reducer' = join_reducer
          /\ join_pc' = "reducing"]_vars
  /\ []((join_pc = "reduced" /\ JoinAllExitedZero) =>
          join_reducer_output = JoinReducer(TaggedRecordsOnly(ReducerLines)))

\* The reducer read the empty line that an empty activity output leaves at
\* the head of the stream, and after it a profile record that it holds in
\* its buffer.
C22_Witness ==
  /\ join_pc = "reducing"
  /\ LinesRead = 2
  /\ ReducerLines[1] = <<>>
  /\ join_reducer.current_user # None
  /\ join_reducer.profile_data # None

\* ------------------------------------------------------------------------
\* Vocabulary of the claims about a directory as input.

\* A run of the job has just been made, and the text it fed to the mapper.
JobRan == Len(mapper_stdin') = Len(mapper_stdin) + 1
FedToMapper == mapper_stdin'[Len(mapper_stdin')]

\* The texts of the files in the order given, each followed by a newline.
RECURSIVE EachFollowedByNewline(_, _)
EachFollowedByNewline(entries, order) ==
  IF Len(order) = 0 THEN <<>>
  ELSE entries[Head(order)].text \o <<NL>>
         \o EachFollowedByNewline(entries, Tail(order))

\* The records of a text whatever their order: its lines that are not
\* empty, sorted.
LogicalStream(text) ==
  Sorted(SelectSeq(TextLines(text), LAMBDA line : line # <<>>))

\* C23: when the input path is a directory, the text fed to the mapper is
\* the concatenation, in some order, of the texts of all the regular files
\* the directory holds when the job starts, each taken once and followed by
\* a newline, so that no line of one file is fused with a line of the next.
C23_DirectoryInputIsConcatenation ==
  [][JobRan =>
       \E order \in Listings(dir_entries) :
         FedToMapper = EachFollowedByNewline(dir_entries, order)]_vars

\* The same, for the runs that find no temp_input.txt in the input
\* directory: every run with the output elsewhere, and the first run.
C23_ConcatenationWithoutStaleTemp ==
  [][(JobRan /\ "temp_input.txt" \notin DOMAIN dir_entries) =>
       \E order \in Listings(dir_entries) :
         FedToMapper = EachFollowedByNewline(dir_entries, order)]_vars

\* C30: two runs of the job on the same directory feed the mapper the same
\* records, also when the output file lies in that directory.
C30_SecondRunReadsSameStream ==
  Len(mapper_stdin) >= 2 =>
    LogicalStream(mapper_stdin[2]) = LogicalStream(mapper_stdin[1])

\* The same, for the runs whose output lies in another directory.
C30_SameStreamWithOutputElsewhere ==
  (Len(mapper_stdin) >= 2 /\ ~output_in_input_dir) =>
    LogicalStream(mapper_stdin[2]) = LogicalStream(mapper_stdin[1])

\* ------------------------------------------------------------------------
\* C24: the join does not depend on the order of its two map stages. The
\* stage that runs second leaves the inputs, the skewed keys and the output
\* of the first as they are; each output is what its mapper prints for its
\* own input; the sorted stream is the one obtained from the two outputs
\* concatenated in the other order, and the rows printed are those of that
\* stream.
C24_MapStageOrderIrrelevant ==
  /\ [][join_pc = "activity_mapped" =>
          /\ activity_mapper_output' = activity_mapper_output
          /\ activity_input' = activity_input
          /\ profile_input' = profile_input
          /\ skewed_keys_str' = skewed_keys_str]_vars
  /\ [](BothMappersRan =>
          /\ activity_mapper_output =
               JoinActivityMapper(activity_input,
                                  ParseSkewedKeys(skewed_keys_str))
          /\ profile_mapper_output =
               JoinProfileMapper(profile_input,
                                 ParseSkewedKeys(skewed_keys_str)))
  /\ [](join_pc \in {"sorted", "reducing", "reduced", "done"} =>
          join_sorted_lines =
            SortLines(CombinedLines(profile_mapper_output,
                                    activity_mapper_output)))
  /\ [](JoinReducedClean =>
          join_reducer_output =
            JoinReducer(StdinLines(
              SortLines(CombinedLines(profile_mapper_output,
                                      activity_mapper_output)))))

\* Both mappers printed records, the two orders of concatenation differ, and
\* a row was joined.
C24_Witness ==
  /\ JoinDoneClean
  /\ CombinedLines(activity_mapper_output, profile_mapper_output) #
       CombinedLines(profile_mapper_output, activity_mapper_output)
  /\ join_sorted_lines #
       CombinedLines(profile_mapper_output, activity_mapper_output)
  /\ Len(activity_mapper_output) >= 2
  /\ Len(profile_mapper_output) >= 1
  /\ Len(join_reducer_output) >= 1

\* ------------------------------------------------------------------------
\* Vocabulary of the claim about the aggregation reducer's groups.

\* The reducer of the aggregation job has read the sorted stream to its end.
AggregationReduced ==
  /\ job = "aggregation"
  /\ pc \in {"reduced", "done"}
  /\ Len(stages) = 2
  /\ \A i \in 1..Len(stages) : stages[i][2] = 0

\* The lines the reducer read, and the composite key and the value of one.
AggregatedLines == StdinLines(sorted_lines)
CompositeKey(i) == Split(Strip(AggregatedLines[i]), TAB)[1]
CountsOf(i) == Split(Split(Strip(AggregatedLines[i]), TAB)[2], COMMA)

\* The user id of a composite key "UserID,SortKey": the key without its
\* last comma and the sort key after it.
UserIdWritten(i) ==
  LET key == CompositeKey(i)
      last == CHOOSE p \in 1..Len(key) :
                key[p] = COMMA /\ \A q \in (p + 1)..Len(key) : key[q] # COMMA
  IN SubSeq(key, 1, last - 1)

\* The user id as the reducer reads it: the key up to its first comma.
UserIdRead(i) == Split(CompositeKey(i), COMMA)[1]

\* C25: for its sorted input the aggregation reducer prints exactly one line
\* for each distinct user id, made from the first record of the user's
\* group, and nothing for the other records of the group.
C25_OneLinePerUserId ==
  AggregationReduced =>
    /\ Len(reducer_output) =
         Cardinality({ UserIdWritten(i) : i \in 1..Len(AggregatedLines) })
    /\ \A i \in 1..Len(AggregatedLines) :
         (\A j \in 1..(i - 1) : UserIdWritten(j) # UserIdWritten(i)) =>
           \E k \in 1..Len(reducer_output) :
             reducer_output[k] = ActivityLine(UserIdWritten(i), CountsOf(i))

\* The same for the user ids as the reducer reads them.
C25_OneLinePerUserIdRead ==
  AggregationReduced =>
    /\ Len(reducer_output) =
         Cardinality({ UserIdRead(i) : i \in 1..Len(AggregatedLines) })
    /\ \A i \in 1..Len(AggregatedLines) :
         (\A j \in 1..(i - 1) : UserIdRead(j) # UserIdRead(i)) =>
           \E k \in 1..Len(reducer_output) :
             reducer_output[k] = ActivityLine(UserIdRead(i), CountsOf(i))

\* ------------------------------------------------------------------------
\* Vocabulary of the claim about the combiner of the trending job.

\* The trending job has run its mapper, combiner and reducer, all exiting
\* with status 0.
TrendingReduced ==
  /\ job = "trending"
  /\ pc \in {"reduced", "done"}
  /\ Len(stages) = 3
  /\ \A i \in 1..Len(stages) : stages[i][2] = 0

\* The sorted stream the combiner read, and the one the reducer would read
\* if the job had no combiner.
SortedMapped == SortLines(StripSplitLines(TrendingContentMapper(input_lines)))

\* The sum of the engagement counts of a content id in a stream.
RECURSIVE EngagementSum(_, _)
EngagementSum(lines, content_id) ==
  IF Len(lines) = 0 THEN 0
  ELSE (IF /\ DecodesEngagement(Head(lines))
           /\ Split(Strip(Head(lines)), TAB)[1] = content_id
        THEN ParseInt(Split(Strip(Head(lines)), TAB)[2])
        ELSE 0) + EngagementSum(Tail(lines), content_id)

ContentIds(lines) ==
  { Split(Strip(lines[i]), TAB)[1] :
      i \in { j \in 1..Len(lines) : DecodesEngagement(lines[j]) } }

\* The combiner keeps the sum of every content id of its input.
CombinerPreservesSums ==
  /\ ContentIds(mapper_output) = ContentIds(SortedMapped)
  /\ \A c \in ContentIds(SortedMapped) :
       EngagementSum(mapper_output, c) = EngagementSum(SortedMapped, c)

\* C26: in the trending job the combiner keeps, for every content id, the
\* sum of the engagement counts of its input, and for a threshold that is
\* fixed and not negative the output of the job is the output of the same
\* job without the combiner: the reducer run on the sorted mapper output.
C26_CombinerTransparent ==
  (TrendingReduced /\ TRENDING_THRESHOLD >= 0) =>
    /\ CombinerPreservesSums
    /\ reducer_output =
         TrendingContentReducer(StdinLines(SortedMapped), TRENDING_THRESHOLD)

\* The first half alone, for every threshold.
C26_SumsPreserved == TrendingReduced => CombinerPreservesSums

\* The second half for the inputs whose mapper output holds every content
\* id once, as the combiner and the reducer read it.
C26_TransparentForDistinctIds ==
  (/\ TrendingReduced
   /\ TRENDING_THRESHOLD >= 0
   /\ Cardinality(ContentIds(SortedMapped)) = Len(SortedMapped)) =>
    reducer_output =
      TrendingContentReducer(StdinLines(SortedMapped), TRENDING_THRESHOLD)

\* ------------------------------------------------------------------------
\* Vocabulary of the claim about the cleansing mapper's counters.

\* The three counters of a cause, and the number of them that the step
\* incremented by one, the others left as they are.
CauseCounters == {"missing_fields", "invalid_timestamp", "malformed_json"}

CausesIncremented ==
  { c \in CauseCounters : discarded_records'[c] = discarded_records[c] + 1 }

CausesUnchanged ==
  { c \in CauseCounters : discarded_records'[c] = discarded_records[c] }

\* The cause for which the line read is discarded, the checks made in the
\* order missing_fields, invalid_timestamp, malformed_json.
CauseOfLineRead ==
  LET fields == Split(Strip(CleansingLineRead), TAB)
  IN IF Len(fields) < 5 THEN "missing_fields"
     ELSE IF ~validate_timestamp(fields[1]) THEN "invalid_timestamp"
     ELSE "malformed_json"

\* Every line read was printed as a record or counted in total_discarded.
EmittedPlusDiscardedIsRead ==
  Len(cleansing_stdout) + discarded_records.total_discarded = cleansing_pos

\* C27: at every point of the cleansing mapper's loop the records printed
\* and total_discarded add up to the lines read, total_discarded is the sum
\* of missing_fields, invalid_timestamp and malformed_json, and a step that
\* discards a line increments exactly one of these three, the one of the
\* first check the line fails.
C27_CleansingConservation ==
  /\ [](EmittedPlusDiscardedIsRead)
  /\ [](discarded_records.total_discarded =
          discarded_records.missing_fields
            + discarded_records.invalid_timestamp
            + discarded_records.malformed_json)
  /\ [][(CleansingReads /\ cleansing_stdout' = cleansing_stdout) =>
          /\ CausesIncremented = {CauseOfLineRead}
          /\ CausesUnchanged = CauseCounters \ {CauseOfLineRead}]_vars

\* The first part alone, and that total_discarded is never less than the
\* sum of the three.
C27_LinesConserved ==
  /\ EmittedPlusDiscardedIsRead
  /\ discarded_records.total_discarded >=
       discarded_records.missing_fields
         + discarded_records.invalid_timestamp
         + discarded_records.malformed_json

\* The third part for the steps that increment a counter of a cause at all.
C27_OneCausePerDiscard ==
  [][(/\ CleansingReads
      /\ cleansing_stdout' = cleansing_stdout
      /\ CausesIncremented # {}) =>
       /\ CausesIncremented = {CauseOfLineRead}
       /\ CausesUnchanged = CauseCounters \ {CauseOfLineRead}]_vars

\* ------------------------------------------------------------------------
\* Vocabulary of the claim about grouping without salting.

\* The keys of the tagged records of the sorted stream, as the mappers
\* printed them: with an empty skewed set, the user ids of the inputs.
SortedKeys ==
  { KeyOf(join_sorted_lines[i]) :
      i \in { j \in 1..Len(join_sorted_lines) :
                Len(SplitOnce(join_sorted_lines[j], TAB)) = 2 } }

\* The reducer puts two keys into one group when it strips them to the same
\* key.
SameGroup(k1, k2) == StripSalt(k1) = StripSalt(k2)

\* The row joins a profile record and an activity record of one user id.
JoinsOneUser(row) ==
  \E i \in 1..Len(activity_input), j \in 1..Len(profile_input) :
    /\ IsActivityRecord(i)
    /\ ActivityKey(i) = ProfileKey(j)
    /\ Len(Split(row, TAB)) >= 3
    /\ row = Split(row, TAB)[1] \o <<TAB>> \o ProfileValue(j)
               \o <<TAB>> \o ActivityValue(i)

\* C28: with an empty skewed set the join reducer groups two records only
\* if their user ids are equal, also for ids that hold a '_': no two
\* different keys of the sorted stream fall into one group, and every row
\* joins a profile and an activity of the same user id.
C28_NoMergeWithoutSalting ==
  (skewed_keys_str = <<>> /\ JoinReducedClean) =>
    /\ \A k1, k2 \in SortedKeys : SameGroup(k1, k2) => k1 = k2
    /\ \A r \in 1..Len(join_reducer_output) :
         JoinsOneUser(join_reducer_output[r])

\* The same for the inputs whose user ids hold no '_'.
C28_NoMergeWithoutSeparator ==
  (/\ skewed_keys_str = <<>>
   /\ JoinReducedClean
   /\ \A k \in SortedKeys : ~Contains(k, USCORE)) =>
    /\ \A k1, k2 \in SortedKeys : SameGroup(k1, k2) => k1 = k2
    /\ \A r \in 1..Len(join_reducer_output) :
         JoinsOneUser(join_reducer_output[r])

\* ------------------------------------------------------------------------
\* Vocabulary of the claim about skew detection in the workflow.

JobsStarted == { jobs_started[i].name : i \in 1..Len(jobs_started) }

\* The step runs skew detection: the analysis file is written.
SkewDetectionRuns == output_dir'.skew_analysis # output_dir.skew_analysis

\* The keys that skew detection counts in the user activity file are all
\* different.
OneRecordPerUserId ==
  \A i, j \in 1..Len(output_dir.user_activity.lines) :
    CountedKey(output_dir.user_activity.lines[i]) =
      CountedKey(output_dir.user_activity.lines[j]) => i = j

\* The rows of a join of the two files in which no key is salted.
UnsaltedJoins ==
  { FileOf(run_join_job(output_dir.user_activity.lines,
                        input_dir.user_profiles.lines, <<>>, rc)) :
      rc \in JoinStatuses }

\* C29: in the workflow of --job all skew detection runs once: in the step
\* of the join job, after the aggregation job wrote the user activity file
\* and before anything of the join is written; not again; and in every
\* workflow that starts the join job. The user activity file holds one
\* record per user id, the skewed keys found are none, and the rows joined
\* are those of a join without salted keys.
C29_SkewDetectedOnceAndEmpty ==
  /\ [][SkewDetectionRuns =>
          /\ main_pc = "join"
          /\ ~output_dir.skew_analysis.exists
          /\ ~output_dir.joined_data.exists
          /\ "join" \notin JobsStarted
          /\ "aggregation" \in JobsStarted
          /\ output_dir.user_activity.exists
          /\ output_dir'.user_activity = output_dir.user_activity]_vars
  /\ []("join" \in JobsStarted => output_dir.skew_analysis.exists)
  /\ [](output_dir.user_activity.exists => OneRecordPerUserId)
  /\ [](output_dir.skew_analysis.exists =>
          output_dir.skew_analysis.lines \in { <<>>, << <<>> >> })
  /\ [](output_dir.joined_data.exists =>
          output_dir.joined_data \in UnsaltedJoins)

\* The workflow ended with status 0 after skew detection found no key among
\* the two users of the activity file and a row was joined.
C29_Witness ==
  /\ main_pc = "exited"
  /\ exit_status = 0
  /\ FailedJobs = {}
  /\ Len(output_dir.user_activity.lines) = 2
  /\ output_dir.skew_analysis = FileOf(<< <<>> >>)
  /\ Len(output_dir.joined_data.lines) >= 1

====
